---- MODULE Spec2Model ----
(***************************************************************************)
(* A model of the spz-rs codec: the 24-bit fixed-point position codec      *)
(* (fixedpoint24.rs), the header (spz_format.rs), the encoder              *)
(* (spz_writer.rs) and the decoder (SPZReader.rs).                         *)
(*                                                                         *)
(* Numbers.  An f32 that goes through the fixed-point codec is carried as  *)
(* a dyadic  [m |-> significand, e |-> exponent]  of value m * 2^e, with m *)
(* odd (or m = 0, e = 0): scaling by a power of two, round(), the cast to  *)
(* i32 and the division by a power of two are exact on such values, so the *)
(* model computes them exactly.  The attributes that go through the        *)
(* one-byte quantizers are carried as rationals [n |-> num, d |-> den],    *)
(* d > 0; the f32 rounding of those computations (relative 2^-24) is not   *)
(* modelled.  An opacity z is carried as the rational e^z, which makes     *)
(* sigmoid and its inverse rational maps.                                  *)
(***************************************************************************)
EXTENDS Integers, Sequences, FiniteSets, TLC

VARIABLES
    checked,      \* the build: TRUE with overflow checks (debug), FALSE without (release)
    fp_value,     \* FixedPoint24.0 : the float handed to FixedPoint24::new
    fp_bits,      \* fractional_bits handed to into / from
    fp_bytes,     \* the [u8; 3] returned by into (None before)
    fp_back,      \* the float returned by from (None before)
    fp_batch,     \* floats handed to compute_fixed_point_fractional_bits
    fp_frac,      \* its outcome (None before)
    gaussians,    \* the point list handed to SPZWriter::write
    omit,         \* SPZWriterOptions.omit_spherical_harmonics
    stream,       \* the bytes the writer has written to its stream
    wres,         \* outcome of the encoder call: "idle", "ok", "err", "panic"
    wcall,        \* the encoder called: "none", "write", "write_spz_to_stream"
    input,        \* the slice an SPZReader was constructed over ("none" before)
    rpos,         \* bytes the reader has consumed from input
    header,       \* SPZReader.header (None or the header record)
    rgaussians,   \* SPZReader.gaussians (None or the decoded list)
    rres,         \* outcome of the last reader call: "idle", "ok", "err", "panic"
    rcall,        \* the last reader call and the position it started at
    chunks,       \* the most bytes the underlying reader delivers per read call,
                  \* by stream position (<<>>: a Cursor, which delivers all it has)
    sh_value,     \* a SphericalHarmonics value: its order and its vectors
    sh_prev,      \* the value before the last call on it
    sh_call,      \* the last call on it and its arguments
    sh_res,       \* outcome of the last call: "idle", "ok", "panic"
    sh_bytes,     \* the bytes spz_bytes returned for sh_value (None before)
    ply_gaussians, \* the point list handed to write_ply_stream
    ply,          \* the PLY document write_ply_stream wrote (None before)
    ply_res,      \* outcome of the last PLY call: "idle", "ok", "panic"
    ply_result,   \* the list load_ply_stream returned (None before)
    h_cells,      \* two grid cells and the bit count handed to hilbert_index_3d
    h_index       \* the two indices it returned (None before)

vars == <<checked, fp_value, fp_bits, fp_bytes, fp_back, fp_batch, fp_frac,
          gaussians, omit, stream, wres, wcall, input, rpos, header, rgaussians, rres,
          rcall, chunks, sh_value, sh_prev, sh_call, sh_res, sh_bytes,
          ply_gaussians, ply, ply_res, ply_result, h_cells, h_index>>

fpVars == <<fp_value, fp_bits, fp_bytes, fp_back, fp_batch, fp_frac>>
codecVars == <<gaussians, omit, stream, wres, wcall, input, rpos, header, rgaussians, rres,
               rcall, chunks>>
shVars == <<sh_value, sh_prev, sh_call, sh_res, sh_bytes>>
plyVars == <<ply_gaussians, ply, ply_res, ply_result>>
hilbertVars == <<h_cells, h_index>>

\* Outcomes: Option::None, a panic, and a value that is present.
None == [tag |-> "none"]
Panic == [tag |-> "panic"]
Some(v) == [tag |-> "some", val |-> v]

(***************************************************************************)
(* Program constants                                                       *)
(***************************************************************************)
I24_MIN == -8388608
I24_MAX == 8388607
BIT_COUNT == 24
MAGIC == 1347635022
VERSION == 2
MAX_SH_DEGREE == 3
HEADER_SIZE == 16
SH1_BITS == 5
SH_REST_BITS == 4

(***************************************************************************)
(* Bounds of the model                                                     *)
(***************************************************************************)
MaxExp == 3
MaxBatch == 3
MaxPoints == 2
MaxVectors == 16
MaxSeed == 19
MaxFlatIndex == 44
MaxBits == 2

(***************************************************************************)
(* Arithmetic helpers                                                      *)
(***************************************************************************)
Abs(x) == IF x < 0 THEN -x ELSE x
Sign(x) == IF x < 0 THEN -1 ELSE 1
Min(a, b) == IF a < b THEN a ELSE b
Max(a, b) == IF a < b THEN b ELSE a
I32_MAX == 2147483647
I32_MIN == -2147483647 - 1

\* Canonical dyadic m * 2^e: m odd, or zero.
RECURSIVE Float(_, _)
Float(m, e) ==
    IF m = 0 THEN [m |-> 0, e |-> 0]
    ELSE IF m % 2 = 0 THEN Float(m \div 2, e + 1)
    ELSE [m |-> m, e |-> e]

\* -1, 0 or 1 as the dyadic f is below, equal to or above the integer k
\* (|f.m| < 2^24, |k| <= 2^24).
CmpInt(f, k) ==
    IF f.e >= 0
    THEN IF f.e >= 25
         THEN IF f.m = 0 THEN (IF k > 0 THEN -1 ELSE IF k = 0 THEN 0 ELSE 1)
              ELSE Sign(f.m)
         ELSE LET big == Abs(f.m) >= 2 ^ (30 - f.e) IN
              IF big THEN Sign(f.m)
              ELSE LET v == f.m * (2 ^ f.e) IN
                   IF v < k THEN -1 ELSE IF v = k THEN 0 ELSE 1
    ELSE LET s == -f.e IN
         IF s >= 30
         THEN \* |f| < 1, and f is no integer
              IF k > 0 THEN -1
              ELSE IF k < 0 THEN 1
              ELSE IF f.m < 0 THEN -1 ELSE 1
         ELSE LET fl == f.m \div (2 ^ s) IN     \* floor(f); f is no integer
              IF fl < k THEN -1 ELSE 1

(***************************************************************************)
(* fixedpoint24.rs                                                         *)
(***************************************************************************)

\* `(1 << n) as f32` on an i32 1.  n is the shift amount as a mathematical
\* integer; a negative n stands for the wrapped usize 2^64 + n.  A shift by
\* 32 or more panics with overflow checks and is masked to 5 bits without.
shl_one(n, chk) ==
    LET s == IF n >= 0 /\ n <= 31 THEN n ELSE n % 32 IN
    IF (n < 0 \/ n > 31) /\ chk THEN Panic
    ELSE IF s = 31 THEN Some([m |-> -1, e |-> 31])      \* i32::MIN
    ELSE Some([m |-> 1, e |-> s])

\* `(x).round() as i32`: round half away from zero, then the saturating cast.
round_as_i32(x) ==
    IF x.m = 0 THEN 0
    ELSE IF x.e >= 0
    THEN IF x.e >= 31 \/ (x.e >= 1 /\ Abs(x.m) >= 2 ^ (31 - x.e))
         THEN (IF x.m > 0 THEN I32_MAX ELSE I32_MIN)
         ELSE x.m * (2 ^ x.e)
    ELSE LET s == -x.e IN
         IF s >= 31 THEN 0
         ELSE Sign(x.m) * ((Abs(x.m) + 2 ^ (s - 1)) \div (2 ^ s))

clamp(x, lo, hi) == IF x < lo THEN lo ELSE IF x > hi THEN hi ELSE x

\* A clamp-less variant of into: the low 24 bits of the rounded value.
into_wrapping(value, fractional_bits, chk) ==
    LET scaling_factor == shl_one(fractional_bits, chk) IN
    IF scaling_factor = Panic THEN Panic
    ELSE LET sf == scaling_factor.val
             int_val == round_as_i32(Float(value.m * sf.m, value.e + sf.e))
             bits == int_val % 16777216
         IN  Some(<<bits % 256, (bits \div 256) % 256, (bits \div 65536) % 256>>)

\* FixedPoint24::into
into(value, fractional_bits, chk) ==
    LET scaling_factor == shl_one(fractional_bits, chk) IN
    IF scaling_factor = Panic THEN Panic
    ELSE LET sf == scaling_factor.val
             scaled == Float(value.m * sf.m, value.e + sf.e)
             int_val == round_as_i32(scaled)
             clipped == clamp(int_val, I24_MIN, I24_MAX)
             bits == clipped % 16777216            \* (clipped as u32) & 0x00FF_FFFF
         IN  Some(<<bits % 256, (bits \div 256) % 256, (bits \div 65536) % 256>>)

\* A variant of from without the sign extension.
from_unsigned(bytes, fractional_bits, chk) ==
    LET raw == bytes[1] + bytes[2] * 256 + bytes[3] * 65536
        scaling_factor == shl_one(fractional_bits, chk)
    IN  IF scaling_factor = Panic THEN Panic
        ELSE Some(Float(raw * scaling_factor.val.m, -scaling_factor.val.e))

\* FixedPoint24::from.  ((raw << 8) as i32) >> 8 is negative exactly when bit
\* 23 of raw is set, and is then raw - 2^24.
from(bytes, fractional_bits, chk) ==
    LET raw == bytes[1] + bytes[2] * 256 + bytes[3] * 65536
        extended == IF raw >= 8388608 THEN raw - 16777216 ELSE raw
        scaling_factor == shl_one(fractional_bits, chk)
    IN  IF scaling_factor = Panic THEN Panic
        ELSE Some(Float(extended * scaling_factor.val.m, -scaling_factor.val.e))

\* value.abs().ceil() as an integer (|value| < 2^30).
ceil_abs(value) ==
    IF value.e >= 0 THEN Abs(value.m) * (2 ^ value.e)
    ELSE IF -value.e >= 30 THEN 1
    ELSE (Abs(value.m) + 2 ^ (-value.e) - 1) \div (2 ^ (-value.e))

\* The least k with 2^k >= n, for an integer n >= 1.
RECURSIVE ceil_log2(_)
ceil_log2(n) == IF n <= 1 THEN 0 ELSE 1 + ceil_log2((n + 1) \div 2)

\* value.log2().ceil() as usize for the f32 value n >= 1 (n < 2^31).  The
\* logarithm is an f32: for n = 2^k + d it is k + d / (2^k ln 2) rounded to the
\* nearest f32, and the f32 values in [16, 32) are 2^-19 apart, so that the
\* logarithm is exactly k, and its ceiling k, when 0 < d < 2^(k-20) ln 2
\* (ln 2 = 0.693147..).  Below 2^21 no integer n is that close to a power of
\* two and the ceiling is the exact one.
f32_log2_ceil(n) ==
    LET c == ceil_log2(n)
        k == c - 1
        d == n - 2 ^ k
    IN  IF /\ k >= 21
           /\ d > 0
           /\ d < 2 ^ (k - 20)
           /\ d * 1000000 < (2 ^ (k - 20)) * 693147
        THEN k
        ELSE c

\* A variant without the early return for zero.
optimal_fractional_bits_nozero(value) ==
    LET bits == f32_log2_ceil(ceil_abs(value)) IN BIT_COUNT - bits - 1

\* FixedPoint24::optimal_fractional_bits.  The result is the usize
\* 24 - bits - 1 as a mathematical integer: a negative result is the
\* subtraction overflowing (a panic with overflow checks, the wrapped usize
\* 2^64 + result without).
optimal_fractional_bits(value) ==
    IF value.m = 0 THEN 0
    ELSE LET bits == f32_log2_ceil(ceil_abs(value)) IN BIT_COUNT - bits - 1

\* The maximum of |v|.ceil() over the batch, 0 for the empty batch.
RECURSIVE max_ceil_abs(_)
max_ceil_abs(floats) ==
    IF floats = <<>> THEN 0
    ELSE Max(IF Head(floats).m = 0 THEN 0 ELSE ceil_abs(Head(floats)),
             max_ceil_abs(Tail(floats)))

\* A variant that takes the first value of the batch instead of the largest.
compute_fixed_point_fractional_bits_first(floats, chk) ==
    LET max == IF floats = <<>> THEN 0
               ELSE IF Head(floats).m = 0 THEN 0 ELSE ceil_abs(Head(floats))
        r == optimal_fractional_bits(Float(max, 0))
    IN  IF r < 0 /\ chk THEN Panic ELSE Some(r)

\* compute_fixed_point_fractional_bits(floats, 24)
compute_fixed_point_fractional_bits(floats, chk) ==
    LET max == max_ceil_abs(floats)
        r == optimal_fractional_bits(Float(max, 0))
    IN  IF r < 0 /\ chk THEN Panic ELSE Some(r)

(***************************************************************************)
(* Inputs of the fixed-point specifications                                *)
(***************************************************************************)
Mantissas == {0, 1, -1, 3, -3, 5, 201, -105, 13191087, -13191087,
              8388607, -8388607, 16777215}
FloatSamples == {Float(m, e) : m \in Mantissas, e \in (0 - 26)..MaxExp}
FractionalBits == 0..BIT_COUNT

BatchValues == {Float(0, 0), Float(1, 0), Float(-1, 0), Float(3, -1),
                Float(-105, 0), Float(171, 0), Float(1, 23), Float(1, 24),
                Float(201, -1), Float(-13778741, -17),
                Float(-215217, -11), Float(350165, -11), Float(5471, -12),
                Float(2097153, 0)}
Batches == UNION {[1..n -> BatchValues] : n \in 0..MaxBatch}

IdleFP ==
    /\ fp_value = None /\ fp_bits = None /\ fp_bytes = None
    /\ fp_back = None /\ fp_batch = None /\ fp_frac = None

\* SphericalHarmonics::default()
IdleSH ==
    /\ sh_value = [order |-> 0, values |-> <<>>]
    /\ sh_prev = [order |-> 0, values |-> <<>>]
    /\ sh_call = [op |-> "default", n |-> 0, seed |-> 0]
    /\ sh_res = "idle"
    /\ sh_bytes = None

IdlePly ==
    /\ ply_gaussians = <<>> /\ ply = None /\ ply_res = "idle" /\ ply_result = None

IdleHilbert == h_cells = None /\ h_index = None

IdleCodec ==
    /\ gaussians = <<>> /\ omit = FALSE /\ stream = <<>> /\ wres = "idle"
    /\ wcall = "none"
    /\ input = None /\ rpos = 0 /\ header = None /\ rgaussians = None
    /\ rres = "idle" /\ rcall = [op |-> "none", from |-> 0] /\ chunks = <<>>

(***************************************************************************)
(* SpecFP: FixedPoint24::new(v).into(b), then FixedPoint24::from(.., b)    *)
(***************************************************************************)
InitFP ==
    /\ checked \in BOOLEAN
    /\ fp_value \in {Some(v) : v \in FloatSamples}
    /\ fp_bits \in {Some(b) : b \in FractionalBits}
    /\ fp_bytes = None /\ fp_back = None /\ fp_batch = None /\ fp_frac = None
    /\ IdleCodec /\ IdleSH /\ IdlePly /\ IdleHilbert

Into ==
    /\ fp_bytes = None
    /\ fp_bytes' = into(fp_value.val, fp_bits.val, checked)
    /\ UNCHANGED <<checked, fp_value, fp_bits, fp_back, fp_batch, fp_frac, codecVars, shVars, plyVars, hilbertVars, hilbertVars>>

From ==
    /\ fp_bytes.tag = "some"
    /\ fp_back = None
    /\ fp_back' = from(fp_bytes.val, fp_bits.val, checked)
    /\ UNCHANGED <<checked, fp_value, fp_bits, fp_bytes, fp_batch, fp_frac, codecVars, shVars, plyVars, hilbertVars, hilbertVars>>

NextFP == Into \/ From

SpecFP == InitFP /\ [][NextFP]_vars

(***************************************************************************)
(* SpecBits: compute_fixed_point_fractional_bits(batch, 24)                *)
(***************************************************************************)
InitBits ==
    /\ checked \in BOOLEAN
    /\ fp_batch \in {Some(b) : b \in Batches}
    /\ fp_value = None /\ fp_bits = None /\ fp_bytes = None /\ fp_back = None
    /\ fp_frac = None
    /\ IdleCodec /\ IdleSH /\ IdlePly /\ IdleHilbert

ComputeBits ==
    /\ fp_frac = None
    /\ fp_frac' = compute_fixed_point_fractional_bits(fp_batch.val, checked)
    /\ UNCHANGED <<checked, fp_value, fp_bits, fp_bytes, fp_back, fp_batch, codecVars, shVars, plyVars, hilbertVars, hilbertVars>>

NextBits == ComputeBits

SpecBits == InitBits /\ [][NextBits]_vars

(***************************************************************************)
(* support.rs, spherical_harmonics.rs                                      *)
(***************************************************************************)
Rat(n, d) == [n |-> n, d |-> d]

\* `x as u8` for the float x = n / d (d > 0): truncation toward zero,
\* saturating at 0 and 255.
as_u8(n, d) == IF n <= 0 THEN 0 ELSE Min(255, n \div d)

\* A real z is carried as the rational e^z.  sigmoid(z) = 1 / (1 + e^-z).
sigmoid(x) == Rat(x.n, x.n + x.d)

\* inv_sigmoid(x) = ln(x / (1 - x)), carried as x / (1 - x).
inv_sigmoid(x) == Rat(x.n, x.d - x.n)

\* SphericalHarmonicsOrder::vector_count
vector_count(order) ==
    CASE order = 0 -> 0 [] order = 1 -> 3 [] order = 2 -> 8 [] order = 3 -> 15

\* SphericalHarmonicsOrder::scalar_count
scalar_count(order) == vector_count(order) * 3

\* SphericalHarmonicsOrder::order_for_degree
order_for_degree(degree) == IF degree \in 0..3 THEN Some(degree) ELSE None

\* A variant of Concat that emits the entries last to first.
RECURSIVE ConcatReversed(_)
ConcatReversed(ss) == IF ss = <<>> THEN <<>> ELSE ConcatReversed(Tail(ss)) \o Head(ss)

RECURSIVE Concat(_)
Concat(ss) == IF ss = <<>> THEN <<>> ELSE Head(ss) \o Concat(Tail(ss))

\* SphericalHarmonics::scalars: the vectors flattened, vector-major.
scalars(sh) == Concat(sh.values)

\* A variant of set_values that accepts 0, 3, 8 and 15 vectors only.
set_values_strict(vs) ==
    IF Len(vs) \in {0, 3, 8, 15}
    THEN Some([order |-> CASE Len(vs) = 0 -> 0 [] Len(vs) = 3 -> 1
                              [] Len(vs) = 8 -> 2 [] Len(vs) = 15 -> 3,
               values |-> vs])
    ELSE Panic

\* SphericalHarmonics::set_values: the variant is chosen by the vector count
\* and the list is zero-filled up to the variant's size.
set_values(values) ==
    LET len == Len(values)
        order == IF len = 0 THEN 0 ELSE IF len <= 3 THEN 1
                 ELSE IF len <= 8 THEN 2 ELSE 3
    IN  IF len > 15 THEN Panic
        ELSE Some([order |-> order,
                   values |-> [i \in 1..vector_count(order) |->
                                  IF i <= len THEN values[i]
                                  ELSE <<Rat(0, 1), Rat(0, 1), Rat(0, 1)>>]])

\* SphericalHarmonics::set_scalars.  A last chunk of one or two scalars is
\* indexed at [1] or [2], which panics.
set_scalars(xs) ==
    IF Len(xs) % 3 # 0 THEN Panic
    ELSE set_values([i \in 1..(Len(xs) \div 3) |->
                        <<xs[3 * i - 2], xs[3 * i - 1], xs[3 * i]>>])

\* SphericalHarmonics::values
values(sh) == sh.values

\* Vec::resize(n, Vec3::zero())
resize(vs, n) ==
    [i \in 1..n |-> IF i <= Len(vs) THEN vs[i] ELSE <<Rat(0, 1), Rat(0, 1), Rat(0, 1)>>]

\* A variant of reorder that builds the new variant from zero vectors only.
reorder_zeroed(sh, order) == set_values(resize(<<>>, vector_count(order)))

\* SphericalHarmonics::reorder
reorder(sh, order) == set_values(resize(values(sh), vector_count(order)))

(***************************************************************************)
(* spz_format.rs                                                           *)
(***************************************************************************)
\* i32 division, which truncates toward zero.
TruncDiv(a, b) == Sign(a) * (Abs(a) \div b)

\* `(x * 128.0).round() as i32` for x = n / d: round half away from zero, then
\* the saturating cast.
round128_as_i32(x) ==
    LET whole == Abs(x.n) \div x.d
        frac == Abs(x.n) % x.d
        part == (256 * frac + x.d) \div (2 * x.d)
    IN  IF whole >= 16777216 \/ part > I32_MAX - 128 * whole
        THEN (IF x.n > 0 THEN I32_MAX ELSE I32_MIN)
        ELSE Sign(x.n) * (128 * whole + part)

\* i32 a + b for b >= 0: a panic with overflow checks, the wrapped sum
\* without.
add_i32(a, b, chk) ==
    IF a > I32_MAX - b
    THEN (IF chk THEN Panic ELSE Some(((a - I32_MAX) + (b - 1)) + I32_MIN))
    ELSE Some(a + b)

\* quantize_sh(x, bucket_size), x = n / d
quantize_sh(x, bucket_size, chk) ==
    LET q == add_i32(round128_as_i32(x), 128, chk) IN
    IF q = Panic THEN Panic
    ELSE LET h == add_i32(q.val, bucket_size \div 2, chk) IN
         IF h = Panic THEN Panic
         ELSE Some(clamp(TruncDiv(h.val, bucket_size) * bucket_size, 0, 255))

\* A variant of spz_bytes that stops after the first nine scalars.
spz_bytes_nine(sh, chk) ==
    LET xs == scalars(sh) IN
    IF Len(xs) < 9 THEN Panic
    ELSE LET qs == [j \in 1..9 |-> quantize_sh(xs[j], 2 ^ (8 - SH1_BITS), chk)] IN
         IF \E j \in 1..9 : qs[j] = Panic THEN Panic
         ELSE Some([j \in 1..9 |-> qs[j].val])

\* SphericalHarmonics::spz_bytes.  The first loop stores sh[j] for j = 0..8
\* whatever scalar_count is, so a value with fewer than nine scalars is an
\* index out of bounds.
spz_bytes(sh, chk) ==
    LET count == scalar_count(sh.order)
        xs == scalars(sh)
    IN  IF Len(xs) # count \/ count < 9 THEN Panic
        ELSE LET qs == [j \in 1..count |->
                           IF j <= 9 THEN quantize_sh(xs[j], 2 ^ (8 - SH1_BITS), chk)
                           ELSE quantize_sh(xs[j], 2 ^ (8 - SH_REST_BITS), chk)]
             IN  IF \E j \in 1..count : qs[j] = Panic THEN Panic
                 ELSE Some([j \in 1..count |-> qs[j].val])

\* SphericalHarmonics::from_spz_bytes
from_spz_bytes(bytes) ==
    set_scalars([j \in 1..Len(bytes) |-> Rat(bytes[j] - 128, 128)])

\* A variant of is_valid that does not look at the degree.
is_valid_no_degree(h) == h.magic = MAGIC /\ h.version = VERSION

\* Header::is_valid
is_valid(h) == h.magic = MAGIC /\ h.version = VERSION /\ h.sh_degree <= MAX_SH_DEGREE

\* Header::new
header_new(num_points, sh_degree, fractional_bits, flags) ==
    [magic |-> MAGIC, version |-> VERSION, num_points |-> num_points,
     sh_degree |-> sh_degree, fractional_bits |-> fractional_bits,
     flags |-> flags, reserved |-> 0]

\* The four little-endian bytes of a u32 below 2^31.
u32_bytes(v) ==
    <<v % 256, (v \div 256) % 256, (v \div 65536) % 256, (v \div 16777216) % 256>>

\* bytemuck::bytes_of(&header) on a little-endian target.
header_bytes(h) ==
    u32_bytes(h.magic) \o u32_bytes(h.version) \o u32_bytes(h.num_points)
        \o <<h.sh_degree, h.fractional_bits, h.flags, h.reserved>>

\* A little-endian u32.  A value of 2^31 or more is carried as the i32 of the
\* same bits, value - 2^32.
u32_from(b, k) ==
    b[k] + b[k + 1] * 256 + b[k + 2] * 65536
        + (IF b[k + 3] >= 128 THEN b[k + 3] - 256 ELSE b[k + 3]) * 16777216

\* bytemuck::from_bytes / Header::from_bytes
header_from_bytes(b) ==
    [magic |-> u32_from(b, 1), version |-> u32_from(b, 5),
     num_points |-> u32_from(b, 9),
     sh_degree |-> b[13], fractional_bits |-> b[14], flags |-> b[15],
     reserved |-> b[16]]

(***************************************************************************)
(* spz_writer.rs                                                           *)
(***************************************************************************)
\* The largest byte B with  B <= 127.5 + 127.5 * c / sqrt(n2), that is with
\* (2B - 255) * sqrt(n2) <= 255 * c : the truncation of a rotation component c
\* of a quaternion of squared norm n2 > 0.
rotation_byte(c, n2) ==
    LET ok(B) == LET L == 2 * B - 255 IN
                 IF L <= 0 /\ c >= 0 THEN TRUE
                 ELSE IF L > 0 /\ c < 0 THEN FALSE
                 ELSE IF L > 0 THEN L * L * n2 <= 65025 * c * c
                 ELSE L * L * n2 >= 65025 * c * c
    IN  CHOOSE B \in 0..255 : ok(B) /\ (B = 255 \/ ~ok(B + 1))

\* A variant of rotation_bytes that does not negate when w < 0.
rotation_bytes_noflip(q) ==
    LET n2 == q.x * q.x + q.y * q.y + q.z * q.z + q.w * q.w IN
    <<rotation_byte(q.x, n2), rotation_byte(q.y, n2), rotation_byte(q.z, n2)>>

\* The three rotation bytes of a point: x, y, z of the normalized quaternion,
\* negated when w < 0.
rotation_bytes(q) ==
    LET n2 == q.x * q.x + q.y * q.y + q.z * q.z + q.w * q.w
        f == IF q.w < 0 THEN -1 ELSE 1
    IN  <<rotation_byte(f * q.x, n2), rotation_byte(f * q.y, n2),
          rotation_byte(f * q.z, n2)>>

\* (sigmoid(alpha) * 255.0) as u8
alpha_byte(alpha) == LET s == sigmoid(alpha) IN as_u8(255 * s.n, s.d)

\* (((v * COLOR_SCALE) + 0.5) * 255.0) as u8, COLOR_SCALE = 0.15 = 3/20
color_byte(v) == as_u8(153 * v.n + 510 * v.d, 4 * v.d)

\* A variant of scale_byte whose cast wraps: the truncated value modulo 256.
scale_byte_wrapping(v) == TruncDiv(16 * (v.n + 10 * v.d), v.d) % 256

\* ((v + 10.0) * 16.0) as u8
scale_byte(v) == as_u8(16 * (v.n + 10 * v.d), v.d)


Panicked(rs) == \E i \in 1..Len(rs) : rs[i] = Panic
Vals(rs) == [i \in 1..Len(rs) |-> rs[i].val]

\* The body that SPZWriter::write (from line 44 on) and write_spz_to_stream
\* (from line 81 on) share, for a list whose shared order is known; the two
\* differ in the number of rotation bytes per point that the assertion on
\* rotation_data expects.
encode_blocks(gs, order, omit_spherical_harmonics, chk, asserted) ==
    LET N == Len(gs)
        positions == Concat([i \in 1..N |-> gs[i].position])
        fractional_bits == compute_fixed_point_fractional_bits(positions, chk)
    IN
    IF fractional_bits = Panic THEN [res |-> "panic", out |-> <<>>]
    ELSE IF order = None THEN [res |-> "err", out |-> <<>>]
    ELSE
    LET hdr == header_new(N, order.val, fractional_bits.val % 256, 0)
        fixed == [k \in 1..Len(positions) |->
                     into(positions[k], fractional_bits.val, chk)]
    IN
    IF Panicked(fixed) THEN [res |-> "panic", out |-> header_bytes(hdr)]
    ELSE
    LET position_data == Concat(Vals(fixed))
        alpha_data == [i \in 1..N |-> alpha_byte(gs[i].alpha)]
        color_data == Concat([i \in 1..N |->
                         [k \in 1..3 |-> color_byte(gs[i].color[k])]])
        scale_data == Concat([i \in 1..N |->
                         [k \in 1..3 |-> scale_byte(gs[i].scales[k])]])
        rotation_data == Concat([i \in 1..N |-> rotation_bytes(gs[i].rotation)])
        before == header_bytes(hdr) \o position_data \o alpha_data \o color_data
                      \o scale_data
        blocks == before \o rotation_data
        sh == [i \in 1..N |-> spz_bytes(gs[i].spherical_harmonics, chk)]
    IN
    IF Len(rotation_data) # N * asserted THEN [res |-> "panic", out |-> before]
    ELSE IF omit_spherical_harmonics THEN [res |-> "ok", out |-> blocks]
    ELSE IF Panicked(sh) THEN [res |-> "panic", out |-> blocks]
    ELSE [res |-> "ok", out |-> blocks \o Concat(Vals(sh))]

\* SPZWriter::write from line 44 on.
write_blocks(gs, order, omit_spherical_harmonics, chk) ==
    encode_blocks(gs, order, omit_spherical_harmonics, chk, 3)

\* A variant of write that takes the order of the first point without
\* comparing the orders.
write_unvalidated(gs, omit_spherical_harmonics, chk) ==
    IF gs = <<>> THEN [res |-> "err", out |-> <<>>]
    ELSE write_blocks(gs, order_for_degree(gs[1].spherical_harmonics.order),
                      omit_spherical_harmonics, chk)

\* SPZWriter::write: the outcome and the bytes written to the stream.
write(gs, omit_spherical_harmonics, chk) ==
    LET sh_count == {gs[i].spherical_harmonics.order : i \in 1..Len(gs)} IN
    IF Cardinality(sh_count) # 1 THEN [res |-> "err", out |-> <<>>]
    ELSE write_blocks(gs, order_for_degree(CHOOSE o \in sh_count : TRUE),
                      omit_spherical_harmonics, chk)

\* spz_format.rs write_spz_to_stream: the outcome and the bytes written.
write_spz_to_stream(gs, omit_spherical_harmonics, chk) ==
    LET sh_count == {gs[i].spherical_harmonics.order : i \in 1..Len(gs)} IN
    IF Cardinality(sh_count) # 1 THEN [res |-> "err", out |-> <<>>]
    ELSE encode_blocks(gs, order_for_degree(CHOOSE o \in sh_count : TRUE),
                       omit_spherical_harmonics, chk, 4)

(***************************************************************************)
(* SPZReader.rs                                                            *)
(***************************************************************************)
\* Read::read on the underlying reader at pos, into a buffer with want bytes
\* left: the number of bytes delivered.  A Cursor delivers all it can; another
\* reader may deliver less, but at least one byte while bytes remain.
reader_read(inp, pos, want, chk_sizes) ==
    LET limit == IF chk_sizes = <<>> THEN want
                 ELSE chk_sizes[(pos % Len(chk_sizes)) + 1]
    IN  Min(Min(want, Len(inp) - pos), limit)

\* The loop of my_read_exact: the position reached, and whether the buffer
\* of len bytes was filled.
RECURSIVE read_loop(_, _, _, _, _)
read_loop(inp, pos, total_read, len, chk_sizes) ==
    IF total_read >= len THEN [ok |-> TRUE, pos |-> pos]
    ELSE LET count == reader_read(inp, pos, len - total_read, chk_sizes) IN
         IF count = 0 THEN [ok |-> FALSE, pos |-> pos]
         ELSE read_loop(inp, pos + count, total_read + count, len, chk_sizes)

\* ReadExt::my_read_exact into a buffer of n * per bytes from the reader at
\* pos: the bytes and the new position, or the error of a short read, which
\* has consumed the rest of the input.  (A point count of 2^31 or more, which
\* is carried as a negative n, asks for more than any input holds.)
my_read_exact(inp, pos, n, per, chk_sizes) ==
    IF n < 0 THEN [ok |-> FALSE, pos |-> Len(inp), buf |-> <<>>]
    ELSE LET r == read_loop(inp, pos, 0, n * per, chk_sizes) IN
         IF r.ok THEN [ok |-> TRUE, pos |-> r.pos, buf |-> SubSeq(inp, pos + 1, r.pos)]
         ELSE [ok |-> FALSE, pos |-> r.pos, buf |-> <<>>]

\* A variant of read_header that clears the stored header when it fails.
read_header_clearing(inp, pos, old, chk_sizes) ==
    LET r == my_read_exact(inp, pos, 1, HEADER_SIZE, chk_sizes) IN
    IF ~r.ok THEN [res |-> "err", pos |-> r.pos, header |-> None]
    ELSE LET h == header_from_bytes(r.buf) IN
         IF ~is_valid(h) THEN [res |-> "err", pos |-> r.pos, header |-> None]
         ELSE [res |-> "ok", pos |-> r.pos, header |-> Some(h)]

\* SPZReader::read_header
read_header(inp, pos, old, chk_sizes) ==
    LET r == my_read_exact(inp, pos, 1, HEADER_SIZE, chk_sizes) IN
    IF ~r.ok THEN [res |-> "err", pos |-> r.pos, header |-> old]
    ELSE LET h == header_from_bytes(r.buf) IN
         IF ~is_valid(h) THEN [res |-> "err", pos |-> r.pos, header |-> old]
         ELSE [res |-> "ok", pos |-> r.pos, header |-> Some(h)]

\* A variant of decode_rotation that leaves out the shift by -1.
decode_rotation_unshifted(v) ==
    LET x == 2 * v[1]
        y == 2 * v[2]
        z == 2 * v[3]
    IN  [x |-> x, y |-> y, z |-> z, den |-> 255,
         w2 |-> Max(0, 65025 - x * x - y * y - z * z)]

\* The rotation a decoder rebuilds from three bytes: x, y, z over 255, and
\* w = sqrt(w2) / 255 with w2 = max(0, 255^2 - x^2 - y^2 - z^2).
decode_rotation(v) ==
    LET x == 2 * v[1] - 255
        y == 2 * v[2] - 255
        z == 2 * v[3] - 255
    IN  [x |-> x, y |-> y, z |-> z, den |-> 255,
         w2 |-> Max(0, 65025 - x * x - y * y - z * z)]

\* SPZReader::read_gaussians
read_gaussians(inp, pos, hdr, old, chk, chk_sizes) ==
    IF hdr = None THEN [res |-> "err", pos |-> pos, gaussians |-> old]
    ELSE
    LET h == hdr.val
        N == h.num_points
        fail(p) == [res |-> "err", pos |-> p, gaussians |-> old]
        rp == my_read_exact(inp, pos, N, 9, chk_sizes)
    IN
    IF ~rp.ok THEN fail(rp.pos)
    ELSE
    LET fixed == [k \in 1..(3 * N) |->
                     from(SubSeq(rp.buf, 3 * k - 2, 3 * k), h.fractional_bits, chk)]
    IN
    IF Panicked(fixed) THEN [res |-> "panic", pos |-> rp.pos, gaussians |-> old]
    ELSE
    LET ra == my_read_exact(inp, rp.pos, N, 1, chk_sizes) IN
    IF ~ra.ok THEN fail(ra.pos)
    ELSE
    LET rc == my_read_exact(inp, ra.pos, N, 3, chk_sizes) IN
    IF ~rc.ok THEN fail(rc.pos)
    ELSE
    LET rs == my_read_exact(inp, rc.pos, N, 3, chk_sizes) IN
    IF ~rs.ok THEN fail(rs.pos)
    ELSE
    LET rr == my_read_exact(inp, rs.pos, N, 3, chk_sizes) IN
    IF ~rr.ok THEN fail(rr.pos)
    ELSE
    LET order == order_for_degree(h.sh_degree) IN
    IF order = None THEN fail(rr.pos)
    ELSE
    LET count == scalar_count(order.val)
        rh == IF order.val # 0 THEN my_read_exact(inp, rr.pos, N, count, chk_sizes)
              ELSE [ok |-> TRUE, pos |-> rr.pos, buf |-> <<>>]
    IN
    IF ~rh.ok THEN fail(rh.pos)
    ELSE
    LET shs == [i \in 1..N |->
                   IF order.val # 0
                   THEN from_spz_bytes(SubSeq(rh.buf, (i - 1) * count + 1, i * count))
                   ELSE Some([order |-> 0, values |-> <<>>])]
        gs == [i \in 1..N |->
                  [position |-> <<fixed[3 * i - 2].val, fixed[3 * i - 1].val,
                                  fixed[3 * i].val>>,
                   scales |-> [k \in 1..3 |->
                                  Rat(rs.buf[3 * (i - 1) + k] - 160, 16)],
                   rotation |-> decode_rotation(SubSeq(rr.buf, 3 * i - 2, 3 * i)),
                   alpha |-> inv_sigmoid(Rat(ra.buf[i], 255)),
                   color |-> [k \in 1..3 |->
                                 Rat(4 * rc.buf[3 * (i - 1) + k] - 510, 153)],
                   spherical_harmonics |-> shs[i].val]]
    IN  [res |-> "ok", pos |-> rh.pos, gaussians |-> Some(gs)]

(***************************************************************************)
(* Inputs of the codec specification                                       *)
(***************************************************************************)
Int3(a, b, c) == <<Float(a, 0), Float(b, 0), Float(c, 0)>>
Rat3(a, b, c) == <<a, b, c>>
Quat(x, y, z, w, den) == [x |-> x, y |-> y, z |-> z, w |-> w, den |-> den]

\* A spherical-harmonics value of the given order, its scalars spread over
\* [-1.5, 1.5].
ShOf(order, seed) ==
    LET r(j) == Rat(((j * 53 + seed) % 301) - 150, 100) IN
    [order |-> order,
     values |-> [i \in 1..vector_count(order) |->
                    <<r(3 * i - 2), r(3 * i - 1), r(3 * i)>>]]

\* The point of tests::test_spz.
CoreA == [position |-> Int3(100, 200, -100),
          rotation |-> Quat(0, 0, 0, 1, 1),
          scales |-> Rat3(Rat(1, 1), Rat(2, 1), Rat(1, 1)),
          color |-> Rat3(Rat(1, 1), Rat(1, 2), Rat(1, 4)),
          alpha |-> Rat(2586, 1000)]
\* Unit positions, w < 0, scales off the grid and out of range, colors out
\* of range, a large opacity.
CoreB == [position |-> Int3(1, 0, -1),
          rotation |-> Quat(3, 0, 0, -4, 5),
          scales |-> Rat3(Rat(1, 32), Rat(6, 1), Rat(-11, 1)),
          color |-> Rat3(Rat(10, 1), Rat(-4, 1), Rat(0, 1)),
          alpha |-> Rat(1000, 1)]
\* A position beyond 2^23, a rotation that is no unit quaternion.
CoreC == [position |-> <<Float(1, 24), Float(3, -1), Float(0, 0)>>,
          rotation |-> Quat(0, 0, 0, 2, 1),
          scales |-> Rat3(Rat(0, 1), Rat(-3, 16), Rat(5, 1)),
          color |-> Rat3(Rat(-1, 3), Rat(3, 1), Rat(1, 10)),
          alpha |-> Rat(1, 10)]
\* Everything inside the quantizers' ranges.
CoreD == [position |-> Int3(3, -5, 7),
          rotation |-> Quat(1, 2, 2, 4, 5),
          scales |-> Rat3(Rat(-10, 1), Rat(95, 16), Rat(-1, 1)),
          color |-> Rat3(Rat(10, 3), Rat(-10, 3), Rat(1, 7)),
          alpha |-> Rat(19, 1)]

\* w = 0 on a quaternion of norm 1.
CoreE == [position |-> Int3(-8388607, 12, 5),
          rotation |-> Quat(2, -1, 2, 0, 3),
          scales |-> Rat3(Rat(95, 16), Rat(-10, 1), Rat(1, 16)),
          color |-> Rat3(Rat(-10, 3), Rat(2, 1), Rat(-1, 1)),
          alpha |-> Rat(1, 19)]
\* w < 0 on a quaternion of norm sqrt(3).
CoreF == [position |-> <<Float(5, -2), Float(-3, -4), Float(96, 0)>>,
          rotation |-> Quat(1, 1, 0, -1, 1),
          scales |-> Rat3(Rat(1, 3), Rat(-5, 2), Rat(4, 1)),
          color |-> Rat3(Rat(7, 2), Rat(-1, 8), Rat(3, 1)),
          alpha |-> Rat(1, 1)]

Point(core, sh) ==
    [position |-> core.position, rotation |-> core.rotation,
     scales |-> core.scales, color |-> core.color, alpha |-> core.alpha,
     spherical_harmonics |-> sh]

SamplePoints ==
    {Point(CoreA, ShOf(0, 0)), Point(CoreB, ShOf(0, 0)),
     Point(CoreC, ShOf(1, 7)), Point(CoreD, ShOf(1, 90)),
     Point(CoreE, ShOf(0, 0)), Point(CoreF, ShOf(1, 140)),
     Point(CoreD, ShOf(2, 31)), Point(CoreA, ShOf(3, 200))}

PointLists == UNION {[1..n -> SamplePoints] : n \in 0..MaxPoints}

\* Header bytes an input may differ in from the written stream: <<index, value>>.
Tampers == {<<1, 0>>, <<4, 81>>, <<5, 3>>, <<8, 1>>, <<13, 4>>, <<13, 255>>,
            <<13, 3>>, <<14, 31>>, <<14, 40>>}

(***************************************************************************)
(* Spec: SPZWriter::write, then an SPZReader over the written bytes or     *)
(* over a copy with one header byte changed                                *)
(***************************************************************************)
Init ==
    /\ checked \in BOOLEAN
    /\ IdleFP
    /\ gaussians \in PointLists
    /\ omit \in BOOLEAN
    /\ stream = <<>>
    /\ wres = "idle"
    /\ wcall = "none"
    /\ input = None
    /\ rpos = 0
    /\ header = None
    /\ rgaussians = None
    /\ rres = "idle"
    /\ rcall = [op |-> "none", from |-> 0]
    /\ chunks = <<>>
    /\ IdleSH /\ IdlePly /\ IdleHilbert

\* SPZWriter::write, called before any reader is constructed.
Write ==
    /\ wres = "idle"
    /\ input = None
    /\ LET r == write(gaussians, omit, checked) IN
       /\ wres' = r.res
       /\ stream' = r.out
    /\ wcall' = "write"
    /\ UNCHANGED <<checked, fpVars, shVars, plyVars, hilbertVars, gaussians, omit, input, rpos, header,
                   rgaussians, rres, rcall, chunks>>

\* Lengths at which an input may end before the written stream does: inside
\* the header, at its end, and inside or at the end of every block.
Cuts ==
    LET N == Len(gaussians) IN
    {c \in {7, 16, 20, 16 + 9 * N, 16 + 10 * N + 2, 16 + 13 * N, 16 + 16 * N + 1,
            16 + 19 * N, Len(stream) - 1} : c >= 0 /\ c < Len(stream)}

\* Bytes an input may hold after the written stream.
Trailers == {<<0>>, [i \in 1..17 |-> 7 * i]}

\* Partial-read patterns of a reader that is no Cursor.
ChunkPatterns == {<<1>>, <<3, 1, 7>>}

ResetReader ==
    /\ rpos' = 0
    /\ header' = None
    /\ rgaussians' = None
    /\ rres' = "idle"
    /\ rcall' = [op |-> "new", from |-> 0]
    /\ UNCHANGED <<checked, fpVars, shVars, plyVars, hilbertVars, gaussians, omit, stream, wres, wcall>>

\* The stream of tests::test_single:
\* 4E475350 02000000 01000000 000C0000 00400600 800C00C0 F9B8A693 89B090B0 8080FF
KnownStream ==
    <<78, 71, 83, 80,  2, 0, 0, 0,  1, 0, 0, 0,  0, 12, 0, 0,
      0, 64, 6,  0, 128, 12,  0, 192, 249,
      184,  166, 147, 137,  176, 144, 176,  128, 128, 255>>

\* SPZReader::new_from_slice with skip_compression, over the written bytes,
\* over a copy with one header byte changed, over a truncated copy, over a
\* copy with bytes appended, or over the known stream.
NewFromSlice ==
    /\ input = None
    /\ \/ wres # "idle" /\ input' = Some(stream)
       \/ /\ wres # "idle"
          /\ Len(stream) >= HEADER_SIZE
          /\ \E t \in Tampers :
                /\ stream[t[1]] # t[2]
                /\ input' = Some([stream EXCEPT ![t[1]] = t[2]])
       \/ wres # "idle" /\ \E c \in Cuts : input' = Some(SubSeq(stream, 1, c))
       \/ /\ wres # "idle"
          /\ Len(stream) >= HEADER_SIZE
          /\ \E t \in Trailers : input' = Some(stream \o t)
       \/ wres = "idle" /\ input' = Some(KnownStream)
    /\ chunks' = <<>>
    /\ ResetReader

\* SPZReader::new with skip_compression, over a reader that delivers the
\* written bytes, or a truncated copy, in partial reads.
New ==
    /\ wres # "idle"
    /\ input = None
    /\ \/ input' = Some(stream) /\ chunks' \in ChunkPatterns
       \/ /\ \E c \in Cuts : input' = Some(SubSeq(stream, 1, c))
          /\ chunks' = <<3, 1, 7>>
    /\ ResetReader

ReadHeader ==
    /\ input # None
    /\ rres # "panic"
    /\ LET r == read_header(input.val, rpos, header, chunks) IN
       /\ rres' = r.res
       /\ rpos' = r.pos
       /\ header' = r.header
    /\ rcall' = [op |-> "read_header", from |-> rpos]
    /\ UNCHANGED <<checked, fpVars, shVars, plyVars, hilbertVars, gaussians, omit, stream, wres, wcall, input, rgaussians,
                   chunks>>

ReadGaussians ==
    /\ input # None
    /\ rres # "panic"
    /\ LET r == read_gaussians(input.val, rpos, header, rgaussians, checked, chunks) IN
       /\ rres' = r.res
       /\ rpos' = r.pos
       /\ rgaussians' = r.gaussians
    /\ rcall' = [op |-> "read_gaussians", from |-> rpos]
    /\ UNCHANGED <<checked, fpVars, shVars, plyVars, hilbertVars, gaussians, omit, stream, wres, wcall, input, header,
                   chunks>>

\* SPZReader::read
Read ==
    /\ input # None
    /\ rres # "panic"
    /\ LET h == read_header(input.val, rpos, header, chunks) IN
       IF h.res # "ok"
       THEN /\ rres' = h.res
            /\ rpos' = h.pos
            /\ header' = h.header
            /\ UNCHANGED rgaussians
       ELSE LET r == read_gaussians(input.val, h.pos, h.header, rgaussians, checked, chunks) IN
            /\ rres' = r.res
            /\ rpos' = r.pos
            /\ header' = h.header
            /\ rgaussians' = r.gaussians
    /\ rcall' = [op |-> "read", from |-> rpos]
    /\ UNCHANGED <<checked, fpVars, shVars, plyVars, hilbertVars, gaussians, omit, stream, wres, wcall, input, chunks>>

Next == Write \/ NewFromSlice \/ New \/ ReadHeader \/ ReadGaussians \/ Read

Spec == Init /\ [][Next]_vars

(***************************************************************************)
(* SpecStream: one call of either encoder, SPZWriter::write or             *)
(* write_spz_to_stream                                                     *)
(***************************************************************************)
WriteSpzToStream ==
    /\ wres = "idle"
    /\ input = None
    /\ LET r == write_spz_to_stream(gaussians, omit, checked) IN
       /\ wres' = r.res
       /\ stream' = r.out
    /\ wcall' = "write_spz_to_stream"
    /\ UNCHANGED <<checked, fpVars, shVars, plyVars, hilbertVars, gaussians, omit, input, rpos, header,
                   rgaussians, rres, rcall, chunks>>

NextStream == Write \/ WriteSpzToStream

SpecStream == Init /\ [][NextStream]_vars

(***************************************************************************)
(* SpecSH: calls on one SphericalHarmonics value                            *)
(***************************************************************************)
\* The j-th vector of the input family seed.
SampleVector(j, seed) == <<Rat(j + seed, 1), Rat(0 - j, 2), Rat(3 * j + seed, 4)>>
VectorList(n, seed) == [j \in 1..n |-> SampleVector(j, seed)]
ScalarList(n, seed) == [j \in 1..n |-> Rat(j + seed, 8)]
Seeds == {1, 100}

\* Scalar counts handed to set_scalars: multiples of 3 and others.
ScalarCounts == {0, 1, 2, 3, 4, 9, 24, 45, 3 * MaxVectors - 1, 3 * MaxVectors}

\* (These calls shift and subtract nothing, so one build is enough.)
InitSH ==
    /\ checked = TRUE
    /\ IdleFP /\ IdleCodec /\ IdleSH /\ IdlePly /\ IdleHilbert

\* The outcome r of a call named op: a panic leaves the value as it was.
ShOutcome(r, op, n, seed) ==
    /\ sh_prev' = sh_value
    /\ sh_call' = [op |-> op, n |-> n, seed |-> seed]
    /\ IF r = Panic
       THEN sh_res' = "panic" /\ sh_value' = sh_value
       ELSE sh_res' = "ok" /\ sh_value' = r.val
    /\ UNCHANGED <<checked, fpVars, codecVars, plyVars, hilbertVars, sh_bytes>>

SetValues ==
    /\ sh_res # "panic"
    /\ \E n \in 0..MaxVectors, seed \in Seeds :
        ShOutcome(set_values(VectorList(n, seed)), "set_values", n, seed)

SetScalars ==
    /\ sh_res # "panic"
    /\ \E n \in ScalarCounts :
        ShOutcome(set_scalars(ScalarList(n, 1)), "set_scalars", n, 1)

Reorder ==
    /\ sh_res # "panic"
    /\ \E o \in 0..MAX_SH_DEGREE :
        ShOutcome(reorder(sh_value, o), "reorder", o, 0)

NextSH == SetValues \/ SetScalars \/ Reorder

SpecSH == InitSH /\ [][NextSH]_vars

(***************************************************************************)
(* SpecQuant: SphericalHarmonics::spz_bytes on one value                   *)
(***************************************************************************)
\* An SH value of the given order whose scalars are spread over
\* [-600/256, 600/256], halves of 1/128 included.
QuantSH(order, seed) ==
    LET r(j) == Rat(((j * 97 + seed * 61) % 1201) - 600, 256) IN
    [order |-> order,
     values |-> [i \in 1..vector_count(order) |->
                    <<r(3 * i - 2), r(3 * i - 1), r(3 * i)>>]]

\* An Order1 value that holds the scalar x next to small ones.
ExtremeSH(x) ==
    [order |-> 1,
     values |-> <<<<Rat(1, 2), x, Rat(-1, 4)>>, <<Rat(0, 1), Rat(1, 1), Rat(-1, 1)>>,
                  <<Rat(3, 256), Rat(-3, 256), Rat(1, 128)>>>>]

Extremes == {Rat(16777214, 1), Rat(16777215, 1), Rat(16777216, 1), Rat(1073741824, 1),
             Rat(-16777215, 1), Rat(-16777216, 1), Rat(-1073741824, 1)}

QuantSeeds == 0..MaxSeed

QuantValues ==
    {QuantSH(o, seed) : o \in 0..MAX_SH_DEGREE, seed \in QuantSeeds}
        \cup {ExtremeSH(x) : x \in Extremes}

InitQuant ==
    /\ checked \in BOOLEAN
    /\ IdleFP /\ IdleCodec /\ IdlePly /\ IdleHilbert
    /\ sh_value \in QuantValues
    /\ sh_prev = [order |-> 0, values |-> <<>>]
    /\ sh_call = [op |-> "default", n |-> 0, seed |-> 0]
    /\ sh_res = "idle"
    /\ sh_bytes = None

SpzBytes ==
    /\ sh_res = "idle"
    /\ LET r == spz_bytes(sh_value, checked) IN
       /\ sh_bytes' = r
       /\ sh_res' = IF r = Panic THEN "panic" ELSE "ok"
    /\ sh_call' = [op |-> "spz_bytes", n |-> 0, seed |-> 0]
    /\ UNCHANGED <<checked, fpVars, codecVars, plyVars, hilbertVars, sh_value, sh_prev>>

NextQuant == SpzBytes

SpecQuant == InitQuant /\ [][NextQuant]_vars

(***************************************************************************)
(* ply_format.rs                                                           *)
(***************************************************************************)
\* format!("{}", i): the decimal digits of i.
RECURSIVE Digits(_)
Digits(i) == IF i < 10 THEN <<i>> ELSE Digits(i \div 10) \o <<i % 10>>

\* str::parse::<usize> on a string of decimal digits.
RECURSIVE ParseDigits(_)
ParseDigits(ds) ==
    IF ds = <<>> THEN 0
    ELSE 10 * ParseDigits(SubSeq(ds, 1, Len(ds) - 1)) + ds[Len(ds)]

\* A property name: a fixed text, or "f_rest_" followed by a number's digits.
Name(text) == [text |-> text, digits |-> <<>>]
f_rest(i) == [text |-> "f_rest_", digits |-> Digits(i)]

\* SphericalHarmonicsOrder::index
index(order) == CASE order = 0 -> 0 [] order = 1 -> 1 [] order = 2 -> 2 [] order = 3 -> 3

\* A variant of extend_scalar that starts from an empty list of vectors.
extend_scalar_fresh(sh, scalar_index, value) ==
    LET sh_index == scalar_index \div 3
        grown == resize(<<>>, sh_index + 1)
    IN  set_values([grown EXCEPT ![sh_index + 1][(scalar_index % 3) + 1] = value])

\* SphericalHarmonics::extend_scalar
extend_scalar(sh, scalar_index, value) ==
    LET sh_index == scalar_index \div 3
        vs == values(sh)
        grown == IF Len(vs) <= sh_index THEN resize(vs, sh_index + 1) ELSE vs
    IN  set_values([grown EXCEPT ![sh_index + 1][(scalar_index % 3) + 1] = value])

\* <UnpackedGaussian as PropertyAccess>::new
property_access_new ==
    [position |-> <<Float(0, 0), Float(0, 0), Float(0, 0)>>,
     rotation |-> [x |-> Rat(0, 1), y |-> Rat(0, 1), z |-> Rat(0, 1), w |-> Rat(1, 1)],
     scales |-> <<Rat(1, 1), Rat(1, 1), Rat(1, 1)>>,
     color |-> <<Rat(0, 1), Rat(0, 1), Rat(0, 1)>>,
     alpha |-> Rat(1, 1),
     spherical_harmonics |-> [order |-> 0, values |-> <<>>]]

\* <UnpackedGaussian as PropertyAccess>::set_property with a Float property.
set_property(g, property_name, v) ==
    LET t == property_name.text IN
    IF t = "f_rest_"
    THEN LET r == extend_scalar(g.spherical_harmonics, ParseDigits(property_name.digits), v)
         IN  IF r = Panic THEN Panic
             ELSE Some([g EXCEPT !.spherical_harmonics = r.val])
    ELSE CASE t = "x" -> Some([g EXCEPT !.position[1] = v])
           [] t = "y" -> Some([g EXCEPT !.position[2] = v])
           [] t = "z" -> Some([g EXCEPT !.position[3] = v])
           [] t = "rot_0" -> Some([g EXCEPT !.rotation.x = v])
           [] t = "rot_1" -> Some([g EXCEPT !.rotation.y = v])
           [] t = "rot_2" -> Some([g EXCEPT !.rotation.z = v])
           [] t = "rot_3" -> Some([g EXCEPT !.rotation.w = v])
           [] t = "scale_0" -> Some([g EXCEPT !.scales[1] = v])
           [] t = "scale_1" -> Some([g EXCEPT !.scales[2] = v])
           [] t = "scale_2" -> Some([g EXCEPT !.scales[3] = v])
           [] t = "opacity" -> Some([g EXCEPT !.alpha = v])
           [] t \in {"nx", "ny", "nz"} -> Some(g)
           [] t = "f_dc_0" -> Some([g EXCEPT !.color[1] = v])
           [] t = "f_dc_1" -> Some([g EXCEPT !.color[2] = v])
           [] t = "f_dc_2" -> Some([g EXCEPT !.color[3] = v])
           [] OTHER -> Panic

\* write_ply_stream: the f_rest_i properties the vertex
\* element declares.
element_properties(gaussians0) ==
    [k \in 1..index(gaussians0.spherical_harmonics.order) |-> f_rest(k - 1)]

\* write_ply_stream: the record of one point, as the set of
\* its <<name, value>> insertions.
record(gaussian) ==
    LET sc == scalars(gaussian.spherical_harmonics) IN
    {<<Name("x"), gaussian.position[1]>>, <<Name("y"), gaussian.position[2]>>,
     <<Name("z"), gaussian.position[3]>>,
     <<Name("rot_0"), gaussian.rotation.x>>, <<Name("rot_1"), gaussian.rotation.y>>,
     <<Name("rot_2"), gaussian.rotation.z>>, <<Name("rot_3"), gaussian.rotation.w>>,
     <<Name("scale_0"), gaussian.scales[1]>>, <<Name("scale_1"), gaussian.scales[2]>>,
     <<Name("scale_2"), gaussian.scales[3]>>,
     <<Name("opacity"), gaussian.alpha>>,
     <<Name("nx"), Rat(0, 1)>>, <<Name("ny"), Rat(0, 1)>>, <<Name("nz"), Rat(0, 1)>>,
     <<Name("f_dc_0"), gaussian.color[1]>>, <<Name("f_dc_1"), gaussian.color[2]>>,
     <<Name("f_dc_2"), gaussian.color[3]>>}
    \cup {<<f_rest(i - 1), sc[i]>> : i \in 1..Len(sc)}

\* write_ply_stream.  The document written holds the declared properties
\* and, per record, one little-endian f32 for each declared property, in
\* declaration order; an f32 goes through the file unchanged.
write_ply_stream(gaussians_) ==
    IF Len(gaussians_) = 0 THEN Panic                       \* gaussians[0]
    ELSE
    LET fixed == <<"x", "y", "z", "rot_0", "rot_1", "rot_2", "rot_3",
                   "scale_0", "scale_1", "scale_2", "opacity", "nx", "ny", "nz",
                   "f_dc_0", "f_dc_1", "f_dc_2">>
        properties == [k \in 1..Len(fixed) |-> Name(fixed[k])]
                      \o element_properties(gaussians_[1])
        row(g) == [k \in 1..Len(properties) |->
                      (CHOOSE e \in record(g) : e[1] = properties[k])[2]]
    IN  Some([properties |-> properties,
              payload |-> [i \in 1..Len(gaussians_) |-> row(gaussians_[i])]])

\* Parser::read_payload_for_element on one record: set_property is called
\* for each declared property in turn, on a value made by new().
RECURSIVE read_element(_, _, _, _)
read_element(g, properties, row, k) ==
    IF k > Len(properties) THEN Some(g)
    ELSE LET r == set_property(g, properties[k], row[k]) IN
         IF r = Panic THEN Panic
         ELSE read_element(r.val, properties, row, k + 1)

\* load_ply_stream over a document with the one element "vertex".
load_ply_stream(doc) ==
    LET rs == [i \in 1..Len(doc.payload) |->
                  read_element(property_access_new, doc.properties, doc.payload[i], 1)]
    IN  IF Panicked(rs) THEN Panic ELSE Some(Vals(rs))

(***************************************************************************)
(* SpecPly: write_ply_stream, then load_ply_stream over what was written   *)
(***************************************************************************)
\* A sample point as the PLY code sees it: every attribute is an f32 that is
\* copied, the rotation being the four components x, y, z, w.
PlyPoint(core, sh) ==
    [Point(core, sh) EXCEPT
        !.rotation = [x |-> Rat(core.rotation.x, core.rotation.den),
                      y |-> Rat(core.rotation.y, core.rotation.den),
                      z |-> Rat(core.rotation.z, core.rotation.den),
                      w |-> Rat(core.rotation.w, core.rotation.den)]]

PlyPoints ==
    {PlyPoint(core, ShOf(o, 7 + 50 * o)) :
        core \in {CoreA, CoreB, CoreC, CoreD, CoreE, CoreF}, o \in 0..MAX_SH_DEGREE}

\* The empty list and the lists of points that share one SH order.
PlyLists ==
    {l \in UNION {[1..n -> PlyPoints] : n \in 0..MaxPoints} :
        \A i, j \in 1..Len(l) :
            l[i].spherical_harmonics.order = l[j].spherical_harmonics.order}

InitPly ==
    /\ checked = TRUE
    /\ IdleFP /\ IdleCodec /\ IdleSH /\ IdleHilbert
    /\ ply_gaussians \in PlyLists
    /\ ply = None
    /\ ply_res = "idle"
    /\ ply_result = None

WritePly ==
    /\ ply_res = "idle"
    /\ LET r == write_ply_stream(ply_gaussians) IN
       IF r = Panic
       THEN ply_res' = "panic" /\ ply' = None
       ELSE ply_res' = "ok" /\ ply' = r
    /\ UNCHANGED <<checked, fpVars, codecVars, shVars, hilbertVars, ply_gaussians, ply_result>>

LoadPly ==
    /\ ply # None
    /\ ply_result = None
    /\ ply_res = "ok"
    /\ LET r == load_ply_stream(ply.val) IN
       IF r = Panic
       THEN ply_res' = "panic" /\ ply_result' = None
       ELSE ply_res' = "ok" /\ ply_result' = r
    /\ UNCHANGED <<checked, fpVars, codecVars, shVars, hilbertVars, ply_gaussians, ply>>

NextPly == WritePly \/ LoadPly

SpecPly == InitPly /\ [][NextPly]_vars

(***************************************************************************)
(* Claims on the fixed-point codec                                         *)
(***************************************************************************)

\* v * 2^b for the inputs of the state.
Scaled == Float(fp_value.val.m, fp_value.val.e + fp_bits.val)
ScaledInRange == CmpInt(Scaled, I24_MIN) >= 0 /\ CmpInt(Scaled, I24_MAX) <= 0
\* The signed 24-bit integer that three little-endian bytes hold.
SignedLE(bytes) ==
    LET raw == bytes[1] + bytes[2] * 256 + bytes[3] * 65536 IN
    IF raw >= 8388608 THEN raw - 16777216 ELSE raw

\* C3: when v * 2^b lies in [-2^23, 2^23 - 1], from(into(v, b), b) differs
\* from v by at most 2^-b, and equals v when v * 2^b is an integer
\* (negative ones included).
C3_RoundTrip ==
    (fp_back.tag = "some" /\ ScaledInRange) =>
        LET back == fp_back.val
            K == IF back.e + fp_bits.val >= 0
                 THEN back.m * (2 ^ (back.e + fp_bits.val))   \* back * 2^b
                 ELSE I32_MAX
        IN  /\ K >= I24_MIN /\ K <= I24_MAX
            /\ CmpInt(Scaled, K - 1) >= 0
            /\ CmpInt(Scaled, K + 1) <= 0
            /\ (Scaled.e >= 0 => back = fp_value.val)

C3_Witness ==
    /\ fp_back.tag = "some"
    /\ ScaledInRange
    /\ fp_value.val.m < 0
    /\ fp_bits.val = 8
    /\ Scaled.e >= 0
    /\ fp_back.val = fp_value.val

\* C4: the integer that into stores is clamp(round(v * 2^b), -2^23, 2^23 - 1),
\* as three bytes, least significant first; a value above the range stores
\* 2^23 - 1 and one below it -2^23.
C4_Saturates ==
    (fp_bytes.tag = "some") =>
        LET bytes == fp_bytes.val
            K == SignedLE(bytes)
            twice == Float(Scaled.m, Scaled.e + 1)
        IN  /\ \A i \in 1..3 : bytes[i] \in 0..255
            /\ CmpInt(Scaled, I24_MAX) >= 0 => K = I24_MAX
            /\ CmpInt(Scaled, I24_MIN) <= 0 => K = I24_MIN
            /\ (CmpInt(Scaled, I24_MAX) < 0 /\ CmpInt(Scaled, I24_MIN) > 0) =>
                   /\ CmpInt(twice, 2 * K - 1) >= 0
                   /\ CmpInt(twice, 2 * K + 1) <= 0
                   /\ CmpInt(twice, 2 * K - 1) = 0 => Scaled.m > 0
                   /\ CmpInt(twice, 2 * K + 1) = 0 => Scaled.m < 0

C4_Witness ==
    /\ fp_bytes = Some(<<255, 255, 127>>)
    /\ CmpInt(Scaled, I24_MAX) > 0

(***************************************************************************)
(* Claims on the choice of the fractional-bit count                        *)
(***************************************************************************)
RECURSIVE MinOptimal(_)
MinOptimal(floats) ==
    IF Len(floats) = 1 THEN optimal_fractional_bits(Head(floats))
    ELSE Min(optimal_fractional_bits(Head(floats)), MinOptimal(Tail(floats)))

NonZero(floats) == SelectSeq(floats, LAMBDA v : v.m # 0)
AllZero(floats) == \A i \in 1..Len(floats) : floats[i].m = 0
NoOverflow(floats) ==
    \A i \in 1..Len(floats) : /\ CmpInt(floats[i], 8388608) <= 0
                              /\ CmpInt(floats[i], -8388608) >= 0

\* C5 as claimed: for a non-empty batch the count is the minimum of the
\* per-value optimal counts.
C5_MinOfAll ==
    (fp_frac.tag = "some" /\ fp_batch.val # <<>> /\ NoOverflow(fp_batch.val)) =>
        fp_frac.val = MinOptimal(fp_batch.val)

\* C5 as amended: for a non-empty batch of values of magnitude at most 2^23
\* the count is the minimum of the optimal counts of the non-zero values,
\* and 0 when every value is zero.
C5_MinOfNonZero ==
    (fp_frac.tag = "some" /\ fp_batch.val # <<>> /\ NoOverflow(fp_batch.val)) =>
        IF AllZero(fp_batch.val) THEN fp_frac.val = 0
        ELSE fp_frac.val = MinOptimal(NonZero(fp_batch.val))

C5_Witness ==
    /\ fp_frac = Some(15)
    /\ Len(fp_batch.val) = 3
    /\ \E i \in 1..3 : fp_batch.val[i].m = 0
    /\ \E i \in 1..3 : fp_batch.val[i] = Float(1, 0)
    /\ NoOverflow(fp_batch.val)

\* C6 as claimed: an all-zero batch, and the empty one, get the maximum
\* fractional-bit count.
C6_ZeroGivesMaximum ==
    (fp_frac.tag # "none" /\ AllZero(fp_batch.val)) =>
        (fp_frac.tag = "some" /\ fp_frac.val \in {BIT_COUNT - 1, BIT_COUNT})

\* C6 as amended: an all-zero batch, and the empty one, get the count 0.
C6_ZeroGivesZero ==
    (fp_frac.tag # "none" /\ AllZero(fp_batch.val)) => fp_frac = Some(0)

C6_Witness ==
    /\ fp_frac = Some(0)
    /\ Len(fp_batch.val) = 2
    /\ AllZero(fp_batch.val)

\* C7: for every batch of finite floats the count lies in 0..24; the
\* computation neither panics nor wraps.
C7_CountInRange ==
    (fp_frac.tag # "none") => (fp_frac.tag = "some" /\ fp_frac.val \in 0..BIT_COUNT)

(***************************************************************************)
(* Claims on the encoder and the decoder                                   *)
(***************************************************************************)
Orders == {gaussians[i].spherical_harmonics.order : i \in 1..Len(gaussians)}
Homogeneous == Cardinality(Orders) = 1
Positions == Concat([i \in 1..Len(gaussians) |-> gaussians[i].position])

\* SPZWriter::write returned Ok, and SPZReader::read over exactly the written
\* bytes returned Ok.
RoundTripped ==
    /\ wres = "ok"
    /\ input = Some(stream)
    /\ rcall = [op |-> "read", from |-> 0]
    /\ rres = "ok"

IntegerValued(f) ==
    /\ f.e >= 0
    /\ CmpInt(f, I24_MAX) <= 0
    /\ CmpInt(f, -I24_MAX) >= 0

\* C1: after write and read of a non-empty list whose position components are
\* all integers of magnitude at most 2^23 - 1, every decoded position
\* component equals the original one.
C1_PositionsExact ==
    (/\ RoundTripped
     /\ Len(gaussians) > 0
     /\ \A k \in 1..Len(Positions) : IntegerValued(Positions[k]))
    => /\ Len(rgaussians.val) = Len(gaussians)
       /\ \A i \in 1..Len(gaussians) :
              rgaussians.val[i].position = gaussians[i].position

\* |a/b - c/d| <= tn/td for b, d, td > 0
Within(a, b, c, d, tn, td) == td * Abs(a * d - c * b) <= tn * b * d

\* The sign of P/Q - sqrt(w2), for Q > 0 and w2 >= 0.
SqrtCmp(P, Q, w2) ==
    IF P < 0 THEN -1
    ELSE LET f == P \div Q
             r == P % Q
         IN  IF f * f > w2 THEN 1
             ELSE IF (f + 1) * (f + 1) <= w2 THEN -1
             ELSE LET lhs == 2 * f * r * Q + r * r
                      rhs == Q * Q * (w2 - f * f)
                  IN  IF lhs < rhs THEN -1 ELSE IF lhs = rhs THEN 0 ELSE 1

\* a * sqrt(n2) <= b
LeSqrt(a, n2, b) ==
    IF a <= 0 /\ b >= 0 THEN TRUE
    ELSE IF a > 0 /\ b < 0 THEN FALSE
    ELSE IF a > 0 THEN a * a * n2 <= b * b
    ELSE a * a * n2 >= b * b

\* The decoded component X / 255 is within 1e-2 of c / sqrt(n2).
NearNormalized(X, c, n2) ==
    /\ LeSqrt(20 * X - 51, n2, 5100 * c)
    /\ LeSqrt(-(20 * X + 51), n2, -(5100 * c))

\* The decoded rotation r is within 1e-2 of the rotation q as given, on all
\* four components.
RotationAsGiven(r, q) ==
    /\ Within(r.x, 255, q.x, q.den, 1, 100)
    /\ Within(r.y, 255, q.y, q.den, 1, 100)
    /\ Within(r.z, 255, q.z, q.den, 1, 100)
    /\ SqrtCmp(255 * (100 * q.w - q.den), 100 * q.den, r.w2) <= 0
    /\ SqrtCmp(255 * (100 * q.w + q.den), 100 * q.den, r.w2) >= 0

\* The decoded x, y, z are within 1e-2 of those of q normalized and negated
\* when q.w < 0.
RotationCanonical(r, q) ==
    LET n2 == q.x * q.x + q.y * q.y + q.z * q.z + q.w * q.w
        f == IF q.w < 0 THEN -1 ELSE 1
    IN  /\ NearNormalized(r.x, f * q.x, n2)
        /\ NearNormalized(r.y, f * q.y, n2)
        /\ NearNormalized(r.z, f * q.z, n2)

ColorNear(c2, c) == Within(c2.n, c2.d, c.n, c.d, 1, 10)
ColorInRange(c) == 3 * Abs(c.n) <= 10 * c.d

\* |ln(a2) - ln(a)| <= 1e-1 is implied by 10/11 <= a2/a <= 11/10 and implies
\* 9/10 <= a2/a <= 10/9, since 11/10 < e^0.1 < 10/9.
AlphaSurelyNear(a2, a) ==
    /\ a2.d > 0 /\ a2.n > 0
    /\ 11 * a2.n * a.d >= 10 * a.n * a2.d
    /\ 10 * a2.n * a.d <= 11 * a.n * a2.d
AlphaPossiblyNear(a2, a) ==
    /\ a2.d > 0 /\ a2.n > 0
    /\ 10 * a2.n * a.d >= 9 * a.n * a2.d
    /\ 9 * a2.n * a.d <= 10 * a.n * a2.d
\* 0.05 <= sigmoid(alpha) <= 0.95
AlphaInRange(a) == 19 * a.n >= a.d /\ a.n <= 19 * a.d

OnScaleGrid(v) ==
    /\ (16 * v.n) % v.d = 0
    /\ (16 * v.n) \div v.d + 160 \in 0..255
ScaleEqual(v2, v) == v2.n * v.d = v.n * v2.d

\* C2 as stated: every decoded point has all four rotation components within
\* 1e-2, every color component and alpha within 1e-1, and every scale that
\* lies on the grid byte/16 - 10 exactly equal.
C2_AllWithinTolerance ==
    RoundTripped =>
        /\ Len(rgaussians.val) = Len(gaussians)
        /\ \A i \in 1..Len(gaussians) :
              LET g == gaussians[i]
                  d == rgaussians.val[i]
              IN  /\ RotationAsGiven(d.rotation, g.rotation)
                  /\ \A k \in 1..3 : ColorNear(d.color[k], g.color[k])
                  /\ AlphaPossiblyNear(d.alpha, g.alpha)
                  /\ \A k \in 1..3 :
                        OnScaleGrid(g.scales[k]) => ScaleEqual(d.scales[k], g.scales[k])

\* C2 amended: every decoded point has x, y, z within 1e-2 of the original
\* rotation normalized and negated when w < 0, every color component with
\* 0 <= 0.15 c + 0.5 <= 1 within 1e-1, alpha within 1e-1 when
\* 0.05 <= sigmoid(alpha) <= 0.95, and every scale on the grid exactly equal.
C2_WithinToleranceInRange ==
    RoundTripped =>
        /\ Len(rgaussians.val) = Len(gaussians)
        /\ \A i \in 1..Len(gaussians) :
              LET g == gaussians[i]
                  d == rgaussians.val[i]
              IN  /\ RotationCanonical(d.rotation, g.rotation)
                  /\ \A k \in 1..3 :
                        ColorInRange(g.color[k]) => ColorNear(d.color[k], g.color[k])
                  /\ AlphaInRange(g.alpha) => AlphaSurelyNear(d.alpha, g.alpha)
                  /\ \A k \in 1..3 :
                        OnScaleGrid(g.scales[k]) => ScaleEqual(d.scales[k], g.scales[k])

C2_Witness ==
    /\ RoundTripped
    /\ Len(gaussians) = 2
    /\ gaussians[1].rotation.w < 0
    /\ AlphaInRange(gaussians[2].alpha)
    /\ \A k \in 1..3 : ColorInRange(gaussians[2].color[k])
    /\ \A k \in 1..3 : OnScaleGrid(gaussians[2].scales[k])
    /\ rgaussians.val[1].rotation.x < 0
    /\ rgaussians.val[2].alpha.n = 242

\* The sixteen bytes a read_header call consumed.
HeaderInput == SubSeq(input.val, rcall.from + 1, rcall.from + HEADER_SIZE)
HeaderRead ==
    /\ rcall.op \in {"read_header", "read"}
    /\ Len(input.val) - rcall.from >= HEADER_SIZE
Acceptable(b) ==
    /\ SubSeq(b, 1, 4) = <<78, 71, 83, 80>>
    /\ SubSeq(b, 5, 8) = <<2, 0, 0, 0>>
    /\ b[13] <= 3

\* C8: read_header accepts sixteen bytes exactly when they carry the magic
\* 0x5053474E, version 2 and a degree of at most 3; on any other header
\* read_header and read return an error and decode nothing.
C8_HeaderAcceptedIff ==
    HeaderRead =>
        /\ Acceptable(HeaderInput) =>
              /\ header.tag = "some"
              /\ header_bytes(header.val) = HeaderInput
              /\ rcall.op = "read_header" => rres = "ok"
        /\ ~Acceptable(HeaderInput) =>
              /\ rres = "err"
              /\ rcall.from = 0 => (header = None /\ rgaussians = None)

C8_Witness ==
    /\ HeaderRead
    /\ rcall.op = "read"
    /\ SubSeq(HeaderInput, 1, 8) = <<78, 71, 83, 80, 2, 0, 0, 0>>
    /\ HeaderInput[13] = 4
    /\ rres = "err"
    /\ header = None

\* C9: the first sixteen bytes written for a homogeneous list of N points are
\* the magic, version 2 and N as little-endian u32, the shared order, the
\* count chosen by compute_fixed_point_fractional_bits, flags 0, reserved 0.
C9_HeaderBytes ==
    (Homogeneous /\ Len(stream) >= HEADER_SIZE) =>
        LET count == compute_fixed_point_fractional_bits(Positions, checked) IN
        /\ SubSeq(stream, 1, 4) = <<78, 71, 83, 80>>
        /\ SubSeq(stream, 5, 8) = <<2, 0, 0, 0>>
        /\ SubSeq(stream, 9, 12) = <<Len(gaussians), 0, 0, 0>>
        /\ stream[13] \in Orders
        /\ count.tag = "some" /\ stream[14] = count.val
        /\ stream[15] = 0
        /\ stream[16] = 0

\* C10: a successful write of a non-empty homogeneous list of N points emits
\* 16 + N * (19 + S) bytes, S being 0, 9, 24 or 45 for order 0, 1, 2 or 3
\* when spherical harmonics are written and 0 when they are omitted.
C10_StreamLength ==
    (wres = "ok" /\ Len(gaussians) > 0) =>
        /\ Homogeneous
        /\ LET o == CHOOSE x \in Orders : TRUE
               S == IF omit THEN 0
                    ELSE CASE o = 0 -> 0 [] o = 1 -> 9 [] o = 2 -> 24 [] o = 3 -> 45
           IN  Len(stream) = 16 + Len(gaussians) * (9 + 1 + 3 + 3 + 3 + S)

C10_Witness ==
    /\ wres = "ok"
    /\ ~omit
    /\ Len(gaussians) = 2
    /\ Orders = {2}
    /\ Len(stream) = 102

(***************************************************************************)
(* Claims on the layout of the stream                                      *)
(***************************************************************************)
\* The bytes every block holds for the point g when the chosen count is fb.
PositionBytes(g, fb) == Concat([k \in 1..3 |-> into(g.position[k], fb, checked).val])
ColorBytes(g) == [k \in 1..3 |-> color_byte(g.color[k])]
ScaleBytes(g) == [k \in 1..3 |-> scale_byte(g.scales[k])]

\* The point a decoder builds from the bytes of one point.
PointOfBytes(pos, a, col, sc, rot, sh, fb) ==
    [position |-> [k \in 1..3 |-> from(SubSeq(pos, 3 * k - 2, 3 * k), fb, checked).val],
     scales |-> [k \in 1..3 |-> Rat(sc[k] - 160, 16)],
     rotation |-> decode_rotation(rot),
     alpha |-> inv_sigmoid(Rat(a, 255)),
     color |-> [k \in 1..3 |-> Rat(4 * col[k] - 510, 153)],
     spherical_harmonics |->
         IF sh = <<>> THEN [order |-> 0, values |-> <<>>] ELSE from_spz_bytes(sh).val]

\* The part of the stream that starts off bytes after the header and is len
\* bytes long.
Block(off, len) == SubSeq(stream, HEADER_SIZE + off + 1, HEADER_SIZE + off + len)

\* C11: the stream holds, after the header, the positions of all points, then
\* all alphas, colors, scales, rotations and spherical harmonics, each block
\* in point order; and the i-th decoded point is built from the i-th entry of
\* every block, that is from the quantized attributes of input point i.
C11_BlocksAligned ==
    LET N == Len(gaussians)
        fb == compute_fixed_point_fractional_bits(Positions, checked).val
        S == IF Len(stream) > HEADER_SIZE + 19 * N
             THEN scalar_count(CHOOSE o \in Orders : TRUE) ELSE 0
    IN
    /\ (/\ wres \in {"ok", "panic"}
        /\ input = None            \* write has returned; no later step changes stream
        /\ N > 0
        /\ Len(stream) >= HEADER_SIZE + 19 * N) =>
          \A i \in 1..N :
             LET g == gaussians[i] IN
             /\ Block(9 * (i - 1), 9) = PositionBytes(g, fb)
             /\ Block(9 * N + (i - 1), 1) = <<alpha_byte(g.alpha)>>
             /\ Block(10 * N + 3 * (i - 1), 3) = ColorBytes(g)
             /\ Block(13 * N + 3 * (i - 1), 3) = ScaleBytes(g)
             /\ Block(16 * N + 3 * (i - 1), 3) = rotation_bytes(g.rotation)
             /\ S > 0 =>
                   Block(19 * N + S * (i - 1), S) = spz_bytes(g.spherical_harmonics, checked).val
    /\ RoundTripped =>
          /\ Len(rgaussians.val) = N
          /\ Len(stream) = HEADER_SIZE + (19 + S) * N
          /\ \A i \in 1..N :
                rgaussians.val[i] =
                    PointOfBytes(Block(9 * (i - 1), 9), stream[HEADER_SIZE + 9 * N + i],
                                 Block(10 * N + 3 * (i - 1), 3),
                                 Block(13 * N + 3 * (i - 1), 3),
                                 Block(16 * N + 3 * (i - 1), 3),
                                 Block(19 * N + S * (i - 1), S), stream[14])

C11_Witness ==
    /\ RoundTripped
    /\ Len(gaussians) = 2
    /\ Orders = {1}
    /\ gaussians[1].color # gaussians[2].color
    /\ gaussians[1].position # gaussians[2].position
    /\ rgaussians.val[1].color # rgaussians.val[2].color
    /\ rgaussians.val[1].spherical_harmonics # rgaussians.val[2].spherical_harmonics

(***************************************************************************)
(* Claims on errors                                                        *)
(***************************************************************************)
\* C12: when the list holds points of different SH orders, write returns an
\* error and the stream holds no byte, not even the header.
C12_MixedOrdersNothingWritten ==
    (wres # "idle" /\ Cardinality(Orders) > 1) => (wres = "err" /\ stream = <<>>)

C12_Witness ==
    /\ wres = "err"
    /\ stream = <<>>
    /\ Len(gaussians) = 2
    /\ Orders = {0, 2}
    /\ ~omit

\* The size a valid header b announces: 16 + N * (19 + S).
ExpectedSize(b) == HEADER_SIZE + u32_from(b, 9) * (19 + scalar_count(b[13]))

\* read was called on a fresh reader whose input starts with a valid header.
ReadOfValidHeader ==
    /\ rcall = [op |-> "read", from |-> 0]
    /\ Len(input.val) >= HEADER_SIZE
    /\ Acceptable(SubSeq(input.val, 1, HEADER_SIZE))

\* C13: read on an input with a valid header that ends before the
\* 16 + N * (19 + S) bytes the header announces returns an error and leaves
\* gaussians unset, wherever the input ends; and read on a complete input
\* succeeds and consumes exactly its length, however the underlying reader
\* splits it into partial reads.
C13_ShortStreamIsError ==
    /\ (ReadOfValidHeader /\ Len(input.val) < ExpectedSize(input.val)) =>
          (rres = "err" /\ rgaussians = None)
    /\ (ReadOfValidHeader /\ input = Some(stream)
            /\ Len(input.val) = ExpectedSize(input.val)) =>
          (rres = "ok" /\ rgaussians.tag = "some" /\ rpos = Len(input.val))

\* C14 as stated: read_header on sixteen bytes with a bad magic, version or degree
\* returns an error, leaves the stored header unset and has consumed the
\* sixteen bytes only; read_gaussians with no stored header returns an error
\* and consumes nothing; so a point list is stored only while a header is.
C14_HeaderBeforePoints ==
    /\ (HeaderRead /\ ~Acceptable(HeaderInput)) =>
          /\ rres = "err"
          /\ header = None
          /\ rpos = rcall.from + HEADER_SIZE
    /\ (rcall.op = "read_gaussians" /\ header = None) =>
          (rres = "err" /\ rpos = rcall.from /\ rgaussians = None)
    /\ rgaussians.tag = "some" => header.tag = "some"

\* The sixteen bytes at the reader's position are there and are no valid header.
BadHeaderAhead ==
    /\ Len(input.val) - rpos >= HEADER_SIZE
    /\ ~Acceptable(SubSeq(input.val, rpos + 1, rpos + HEADER_SIZE))

\* A step of the reader: the writer and the reader's input stay as they are.
ReaderStep == wres' = wres /\ input' = input /\ input # None

\* C14 amended: read_header (and read) on sixteen bytes with a bad magic,
\* version or degree returns an error, consumes the sixteen bytes only and
\* leaves the stored header and point list as they were (unset when no earlier
\* call stored them); read_gaussians with no stored header returns an error
\* and consumes nothing; a point list is stored only while a header is.
C14_HeaderUnchangedOnError ==
    /\ [](rgaussians.tag = "some" => header.tag = "some")
    /\ [][/\ (ReaderStep /\ rcall'.op \in {"read_header", "read"} /\ BadHeaderAhead) =>
               /\ rres' = "err"
               /\ rpos' = rpos + HEADER_SIZE
               /\ header' = header
               /\ rgaussians' = rgaussians
          /\ (ReaderStep /\ rcall'.op = "read_gaussians" /\ header = None) =>
               /\ rres' = "err"
               /\ rpos' = rpos
               /\ rgaussians' = rgaussians]_vars

C14_Witness ==
    /\ rcall = [op |-> "read_header", from |-> 16]
    /\ rres = "err"
    /\ rpos = 32
    /\ header.tag = "some"
    /\ rgaussians = None

\* C15: read on an input that holds bytes after the last block its valid
\* header announces returns an error.
C15_TrailingBytesAreError ==
    (ReadOfValidHeader /\ Len(input.val) > ExpectedSize(input.val)) => rres = "err"

(***************************************************************************)
(* Claims on SphericalHarmonics values                                     *)
(***************************************************************************)
Zero3 == <<Rat(0, 1), Rat(0, 1), Rat(0, 1)>>

\* The vectors the last set_values or set_scalars call was given.
GivenVectors ==
    IF sh_call.op = "set_values" THEN VectorList(sh_call.n, sh_call.seed)
    ELSE LET xs == ScalarList(sh_call.n, sh_call.seed) IN
         [i \in 1..(sh_call.n \div 3) |-> <<xs[3 * i - 2], xs[3 * i - 1], xs[3 * i]>>]
Constructing ==
    \/ sh_call.op = "set_values"
    \/ sh_call.op = "set_scalars" /\ sh_call.n % 3 = 0

Leading(sh, n) == [i \in 1..n |-> IF i <= Len(sh.values) THEN sh.values[i] ELSE Zero3]

\* One reorder(o) from the value sh_prev: the result has order o and exactly
\* vector_count(o) vectors, the first min(vector_count(p), vector_count(o))
\* being those of sh_prev and the added ones zero.
ReorderedOnce ==
    sh_call.op = "reorder" =>
        /\ sh_res = "ok"
        /\ sh_value.order = sh_call.n
        /\ Len(sh_value.values) = vector_count(sh_call.n)
        /\ sh_value.values = Leading(sh_prev, vector_count(sh_call.n))

\* A reorder back to the order of sh_prev, right after a reorder from sh_prev:
\* growing then shrinking restores sh_prev, shrinking then growing keeps the
\* vectors that survived and leaves zeros in the dropped positions.
ReorderedBack ==
    (/\ sh_call.op = "reorder"
     /\ sh_call'.op = "reorder"
     /\ sh_call'.n = sh_prev.order
     /\ Len(sh_prev.values) = vector_count(sh_prev.order)) =>
        LET kept == Min(vector_count(sh_call.n), vector_count(sh_prev.order)) IN
        /\ sh_value'.order = sh_prev.order
        /\ Len(sh_value'.values) = Len(sh_prev.values)
        /\ \A i \in 1..Len(sh_prev.values) :
              sh_value'.values[i] = IF i <= kept THEN sh_prev.values[i] ELSE Zero3
        /\ vector_count(sh_call.n) >= vector_count(sh_prev.order) => sh_value' = sh_prev

\* C17: after reorder(o) the value has order o and exactly vector_count(o)
\* vectors; the leading vectors are kept, added vectors are zero, trailing
\* vectors are dropped; growing then shrinking back restores the original and
\* shrinking then growing back leaves zeros in the dropped positions.
C17_ReorderKeepsLeading == [](ReorderedOnce) /\ [][ReorderedBack]_vars

\* An Order2 value with non-zero vectors was shrunk to Order1.
C17_Witness ==
    /\ sh_call = [op |-> "reorder", n |-> 1, seed |-> 0]
    /\ sh_res = "ok"
    /\ sh_prev.order = 2
    /\ sh_prev.values[8] = SampleVector(8, 100)
    /\ sh_value.order = 1
    /\ sh_value.values = <<SampleVector(1, 100), SampleVector(2, 100), SampleVector(3, 100)>>

(***************************************************************************)
(* Claims on the known stream                                              *)
(***************************************************************************)
\* read, or read_header followed by read_gaussians, was called on a fresh
\* reader over the known stream.
KnownStreamRead ==
    /\ input = Some(KnownStream)
    /\ \/ rcall = [op |-> "read", from |-> 0]
       \/ rcall = [op |-> "read_gaussians", from |-> HEADER_SIZE] /\ header # None

\* |ln(a) - 0.95| <= 1e-2 for the odds a = e^alpha, by 256/100 <= a <= 261/100:
\* e^0.94 < 2.56 and 2.61 < e^0.96.
AlphaNearKnown(a) ==
    /\ a.d > 0
    /\ 100 * a.n >= 256 * a.d
    /\ 100 * a.n <= 261 * a.d

DeclaredRest == {k \in 1..Len(ply.val.properties) : ply.val.properties[k].text = "f_rest_"}

SameScalar(a, b) == a.n * b.d = b.n * a.d
SameSH(a, b) ==
    /\ a.order = b.order
    /\ Len(a.values) = Len(b.values)
    /\ \A i \in 1..Len(a.values) : \A k \in 1..3 : SameScalar(a.values[i][k], b.values[i][k])
SamePoint(a, b) ==
    /\ a.position = b.position /\ a.rotation = b.rotation /\ a.scales = b.scales
    /\ a.color = b.color /\ a.alpha = b.alpha
    /\ SameSH(a.spherical_harmonics, b.spherical_harmonics)

\* C19: for every non-empty list of points of one SH order, write_ply_stream
\* declares one f_rest_i per SH scalar of the records, and load_ply_stream
\* over what it wrote returns a list equal to the original point by point,
\* SH order and SH coefficients included.
C19_PlyRoundTrip ==
    /\ (ply # None /\ Len(ply_gaussians) > 0) =>
          Cardinality(DeclaredRest)
              = scalar_count(ply_gaussians[1].spherical_harmonics.order)
    /\ (ply # None /\ ply_res # "idle" /\ (ply_result # None \/ ply_res = "panic")) =>
          /\ ply_res = "ok"
          /\ Len(ply_result.val) = Len(ply_gaussians)
          /\ \A i \in 1..Len(ply_gaussians) : SamePoint(ply_result.val[i], ply_gaussians[i])

(***************************************************************************)
(* Claims on write followed by read                                        *)
(***************************************************************************)
\* C20: every stream that a successful write produced from a non-empty list
\* of points of one SH order, with either setting of
\* omit_spherical_harmonics, is decoded by read without error into exactly N
\* points, and read consumes exactly all bytes of the stream.
C20_WrittenStreamDecodes ==
    (/\ wres = "ok"
     /\ Len(gaussians) > 0
     /\ Homogeneous
     /\ input = Some(stream)
     /\ rcall = [op |-> "read", from |-> 0]) =>
        /\ rres = "ok"
        /\ rgaussians.tag = "some"
        /\ Len(rgaussians.val) = Len(gaussians)
        /\ rpos = Len(stream)

(***************************************************************************)
(* Claims on the SH block of the encoder                                   *)
(***************************************************************************)
\* write was called on a non-empty list of points of one SH order, the SH
\* block not being omitted.
WroteWithSH ==
    /\ wres # "idle"
    /\ Len(gaussians) > 0
    /\ Homogeneous
    /\ ~omit

\* C21: spz_bytes returns exactly scalar_count(order) bytes for every SH
\* order and indexes no scalar that is not there; writing a list of order-0
\* points with omit_spherical_harmonics = false succeeds and writes no SH
\* bytes.
C21_SpzBytesAllOrders ==
    /\ WroteWithSH =>
          \A i \in 1..Len(gaussians) :
              LET b == spz_bytes(gaussians[i].spherical_harmonics, checked) IN
              /\ b.tag = "some"
              /\ Len(b.val) = scalar_count(gaussians[i].spherical_harmonics.order)
    /\ (WroteWithSH /\ Orders = {0}) =>
          /\ wres = "ok"
          /\ Len(stream) = HEADER_SIZE + 19 * Len(gaussians)

(***************************************************************************)
(* Claims on the encoders' assertions                                      *)
(***************************************************************************)
\* An encoder was called on a non-empty list of points of one SH order whose
\* positions have magnitude below 2^23, and the SH block is either omitted
\* or not that of order 0.
EncodedPlainList ==
    /\ wres # "idle"
    /\ Len(gaussians) > 0
    /\ Homogeneous
    /\ \A k \in 1..Len(Positions) :
          CmpInt(Positions[k], I24_MAX) <= 0 /\ CmpInt(Positions[k], -I24_MAX) >= 0
    /\ (omit \/ Orders # {0})

\* C22: on a non-empty list of points of one SH order no block-length
\* assertion of write_spz_to_stream or SPZWriter::write aborts the call: the
\* call returns Ok and has written the header, 9N position bytes, N alpha
\* bytes, 3N color bytes, 3N scale bytes and 3N rotation bytes (and the SH
\* block unless omitted).
C22_AssertionsHold ==
    EncodedPlainList =>
        LET N == Len(gaussians)
            o == CHOOSE x \in Orders : TRUE
        IN  /\ wres = "ok"
            /\ Len(stream) = HEADER_SIZE + (9 + 1 + 3 + 3 + 3) * N
                                + (IF omit THEN 0 ELSE N * scalar_count(o))

(***************************************************************************)
(* Claims on the SH quantizer                                              *)
(***************************************************************************)
\* clamp(floor((raw + bucket/2) / bucket) * bucket, 0, 255) for
\* raw = round(x * 128) + 128, computed without a width: beyond |x| >= 2^22
\* the clamp decides.
ExpectedShByte(x, bucket) ==
    LET whole == Abs(x.n) \div x.d
        frac == Abs(x.n) % x.d
    IN  IF whole >= 4194304 THEN (IF x.n > 0 THEN 255 ELSE 0)
        ELSE LET raw == Sign(x.n) * (128 * whole + (256 * frac + x.d) \div (2 * x.d)) + 128
             IN  clamp(((raw + bucket \div 2) \div bucket) * bucket, 0, 255)

\* C23: in the bytes of one point, flat scalars 0..8 are quantized with
\* bucket size 8 and the later ones with bucket size 16, each byte being
\* clamp(floor((raw + bucket/2) / bucket) * bucket, 0, 255) for
\* raw = round(scalar * 128) + 128, whatever raw is; so every byte is a
\* multiple of its bucket size or 255.
C23_BucketQuantization ==
    (sh_call.op = "spz_bytes" /\ sh_value.order >= 1) =>
        /\ sh_bytes.tag = "some"
        /\ LET xs == scalars(sh_value) IN
           /\ Len(sh_bytes.val) = Len(xs)
           /\ \A j \in 1..Len(xs) :
                 LET bucket == IF j <= 9 THEN 8 ELSE 16 IN
                 /\ sh_bytes.val[j] = ExpectedShByte(xs[j], bucket)
                 /\ (sh_bytes.val[j] % bucket = 0 \/ sh_bytes.val[j] = 255)

(***************************************************************************)
(* Claims on the one-byte quantizers                                       *)
(***************************************************************************)
\* round(n / d) for n >= 0 and d > 0.
RoundNonNeg(n, d) == (2 * n + d) \div (2 * d)
\* 0 <= n / d <= 255 for d > 0.
InByteRange(n, d) == n >= 0 /\ n <= 255 * d

\* B = round(127.5 + 127.5 * c / sqrt(n2)), that is
\* (2B - 256) * sqrt(n2) <= 255 * c < (2B - 254) * sqrt(n2).
IsRoundedRotation(B, c, n2) ==
    /\ LeSqrt(2 * B - 256, n2, 255 * c)
    /\ ~LeSqrt(2 * B - 254, n2, 255 * c)

\* write has put the five attribute blocks of a non-empty list on the stream.
AttributeBlocksWritten ==
    /\ wres \in {"ok", "panic"}
    /\ input = None
    /\ Len(gaussians) > 0
    /\ Len(stream) >= HEADER_SIZE + 19 * Len(gaussians)

\* C24: the stored opacity byte is round(sigmoid(alpha) * 255), each color
\* byte round((color * 0.15 + 0.5) * 255), each scale byte
\* round((scale + 10) * 16) and each rotation byte
\* round(component * (w < 0 ? -127.5 : 127.5) + 127.5) of the normalized
\* quaternion, whenever the value before quantization lies in [0, 255].
C24_QuantizersRound ==
    AttributeBlocksWritten =>
        LET N == Len(gaussians) IN
        \A i \in 1..N :
            LET g == gaussians[i]
                s == sigmoid(g.alpha)
                q == g.rotation
                n2 == q.x * q.x + q.y * q.y + q.z * q.z + q.w * q.w
                f == IF q.w < 0 THEN -1 ELSE 1
                rot == Block(16 * N + 3 * (i - 1), 3)
            IN
            /\ InByteRange(255 * s.n, s.d) =>
                  Block(9 * N + (i - 1), 1)[1] = RoundNonNeg(255 * s.n, s.d)
            /\ \A k \in 1..3 :
                  LET v == g.color[k] IN
                  InByteRange(153 * v.n + 510 * v.d, 4 * v.d) =>
                      Block(10 * N + 3 * (i - 1), 3)[k]
                          = RoundNonNeg(153 * v.n + 510 * v.d, 4 * v.d)
            /\ \A k \in 1..3 :
                  LET v == g.scales[k] IN
                  InByteRange(16 * (v.n + 10 * v.d), v.d) =>
                      Block(13 * N + 3 * (i - 1), 3)[k]
                          = RoundNonNeg(16 * (v.n + 10 * v.d), v.d)
            /\ IsRoundedRotation(rot[1], f * q.x, n2)
            /\ IsRoundedRotation(rot[2], f * q.y, n2)
            /\ IsRoundedRotation(rot[3], f * q.z, n2)

\* The value (scale + 10) * 16 of the scale v, truncated toward zero.
ScaleValue(v) == TruncDiv(16 * (v.n + 10 * v.d), v.d)
\* The scale bytes of point i on the stream.
WrittenScale(i) == Block(13 * Len(gaussians) + 3 * (i - 1), 3)

\* C25 as stated: a scale whose value (scale + 10) * 16 falls outside 0..=255
\* is stored as that value modulo 256.
C25_ScaleWraps ==
    AttributeBlocksWritten =>
        \A i \in 1..Len(gaussians) : \A k \in 1..3 :
            LET x == ScaleValue(gaussians[i].scales[k]) IN
            x \notin 0..255 => WrittenScale(i)[k] = x % 256

\* C25 amended: the cast to a byte saturates, so a scale whose value
\* (scale + 10) * 16 is below 0 is stored as 0, one whose value is above 255
\* is stored as 255, and a value in between is stored truncated.
C25_ScaleSaturates ==
    AttributeBlocksWritten =>
        \A i \in 1..Len(gaussians) : \A k \in 1..3 :
            LET x == ScaleValue(gaussians[i].scales[k]) IN
            WrittenScale(i)[k] = IF x < 0 THEN 0 ELSE IF x > 255 THEN 255 ELSE x

\* A written point with one scale above the byte range and one below it.
C25_Witness ==
    /\ AttributeBlocksWritten
    /\ wres = "ok"
    /\ \E i \in 1..Len(gaussians) :
          /\ ScaleValue(gaussians[i].scales[2]) = 256
          /\ ScaleValue(gaussians[i].scales[3]) = -16
          /\ WrittenScale(i)[2] = 255
          /\ WrittenScale(i)[3] = 0

(***************************************************************************)
(* hilbert_curve.rs                                                        *)
(***************************************************************************)
\* (x >> i) & 1
bit(x, i) == (x \div (2 ^ i)) % 2

\* rotate_and_flip_3d: the cell <<x, y, z>> after the flips and the swap.
rotate_and_flip_3d(x, y, z, s, rx, ry, rz) ==
    IF s <= 1 THEN <<x, y, z>>
    ELSE LET n == s - 1 IN
         IF rz = 0
         THEN IF ry = 0
              THEN IF rx = 1 THEN <<n - y, n - x, z>> ELSE <<y, x, z>>
              ELSE IF rx = 1 THEN <<n - x, n - y, z>> ELSE <<x, y, z>>
         ELSE IF ry = 0
              THEN IF rx = 1 THEN <<n - z, y, n - x>> ELSE <<z, y, x>>
              ELSE IF rx = 1 THEN <<x, n - z, n - y>> ELSE <<x, z, y>>

\* The loop of hilbert_index_3d from iteration i on, with the index so far.
RECURSIVE hilbert_loop(_, _, _, _, _, _)
hilbert_loop(x, y, z, bits, i, index_so_far) ==
    IF i >= bits THEN index_so_far
    ELSE LET s == 2 ^ i
             rx == bit(x, i)
             ry == bit(y, i)
             rz == bit(z, i)
             octant == 4 * rx + 2 * ry + rz
             c == rotate_and_flip_3d(x % s, y % s, z % s, s, rx, ry, rz)
         IN  hilbert_loop(c[1], c[2], c[3], bits, i + 1,
                          index_so_far + octant * (2 ^ (3 * i)))

\* hilbert_index_3d
hilbert_index_3d(x, y, z, bits) == hilbert_loop(x, y, z, bits, 0, 0)

(***************************************************************************)
(* SpecHilbert: hilbert_index_3d on two cells of one grid                  *)
(***************************************************************************)
Cells(bits) == (0..(2 ^ bits - 1)) \X (0..(2 ^ bits - 1)) \X (0..(2 ^ bits - 1))

InitHilbert ==
    /\ checked = TRUE
    /\ IdleFP /\ IdleCodec /\ IdleSH /\ IdlePly
    /\ \E bits \in 1..MaxBits :
         h_cells \in {Some([a |-> a, b |-> b, bits |-> bits]) :
                         a \in Cells(bits), b \in Cells(bits)}
    /\ h_index = None

HilbertIndex ==
    /\ h_index = None
    /\ LET c == h_cells.val IN
       h_index' = Some([a |-> hilbert_index_3d(c.a[1], c.a[2], c.a[3], c.bits),
                        b |-> hilbert_index_3d(c.b[1], c.b[2], c.b[3], c.bits)])
    /\ UNCHANGED <<checked, fpVars, codecVars, shVars, plyVars, h_cells>>

NextHilbert == HilbertIndex

SpecHilbert == InitHilbert /\ [][NextHilbert]_vars

(***************************************************************************)
(* SpecExtend: SphericalHarmonics::extend_scalar                           *)
(***************************************************************************)
\* The values extend_scalar is called on: every order, two families.
ExtendStarts ==
    {set_values(VectorList(n, seed)).val : n \in {0, 3, 8, 15}, seed \in Seeds}

InitExtend ==
    /\ checked = TRUE
    /\ IdleFP /\ IdleCodec /\ IdlePly /\ IdleHilbert
    /\ sh_value \in ExtendStarts
    /\ sh_prev = [order |-> 0, values |-> <<>>]
    /\ sh_call = [op |-> "default", n |-> 0, seed |-> 0]
    /\ sh_res = "idle"
    /\ sh_bytes = None

\* The loop of test_extend: sh.extend_scalar(n, n as f32) for n = 0, 1, ..
\* on the default value.
ExtendLoop ==
    /\ sh_res # "panic"
    /\ \/ sh_call.op = "default" /\ sh_value = [order |-> 0, values |-> <<>>]
       \/ sh_call.op = "extend_loop"
    /\ LET n == IF sh_call.op = "default" THEN 0 ELSE sh_call.n + 1 IN
       /\ n <= MaxFlatIndex
       /\ ShOutcome(extend_scalar(sh_value, n, Rat(n, 1)), "extend_loop", n, n)

\* One call of extend_scalar on a start value or on a value the loop built.
ExtendScalar ==
    /\ sh_res # "panic"
    /\ sh_call.op # "extend_scalar"
    /\ \E i \in 0..MaxFlatIndex, k \in 1..2 :
        ShOutcome(extend_scalar(sh_value, i, IF k = 1 THEN Rat(7, 2) ELSE Rat(0, 1)),
                  "extend_scalar", i, k)

NextExtend == ExtendLoop \/ ExtendScalar

SpecExtend == InitExtend /\ [][NextExtend]_vars

(***************************************************************************)
(* Claims on optimal_fractional_bits                                       *)
(***************************************************************************)
\* The f32 values -105.086426, 170.979 and 1.3356934.
TestBatch == <<Float(-215217, -11), Float(350165, -11), Float(5471, -12)>>

\* 24 - ceil(log2(ceil(|v|))) - 1 with the exact logarithm.
ExactOptimalBits(v) == BIT_COUNT - ceil_log2(ceil_abs(v)) - 1

\* |v| <= 2^23
WithinTwo23(v) == ceil_abs(v) <= 8388608

\* C26: optimal_fractional_bits(v) is 24 - ceil(log2(ceil(|v|))) - 1 for every
\* non-zero v of magnitude at most 2^23 and 0 for v = 0, and
\* compute_fixed_point_fractional_bits of the batch
\* [-105.086426, 170.979, 1.3356934] is 15.
C26_OptimalBitsFormula ==
    (fp_batch # None /\ fp_frac # None) =>
        /\ \A i \in 1..Len(fp_batch.val) :
              LET v == fp_batch.val[i] IN
              IF v.m = 0 THEN optimal_fractional_bits(v) = 0
              ELSE WithinTwo23(v) =>
                       optimal_fractional_bits(v) = ExactOptimalBits(v)
        /\ fp_batch.val = TestBatch => fp_frac = Some(15)

(***************************************************************************)
(* Claims on extend_scalar                                                 *)
(***************************************************************************)
\* The value handed to the last call of extend_scalar.
GivenScalar ==
    IF sh_call.op = "extend_loop" THEN Rat(sh_call.n, 1)
    ELSE IF sh_call.seed = 1 THEN Rat(7, 2) ELSE Rat(0, 1)

\* The smallest order whose vector count is at least n.
SmallestOrder(n) == CHOOSE o \in 0..MAX_SH_DEGREE :
    /\ vector_count(o) >= n
    /\ \A p \in 0..MAX_SH_DEGREE : vector_count(p) >= n => p >= o

\* C27: extend_scalar(i, v) with i < 45 sets the scalar of flat index i to v,
\* keeps every other stored scalar, zero-fills the new ones and leaves the
\* smallest order that covers the old vectors and vector i / 3; the loop
\* extend_scalar(n, n) for n = 0..44 on the default value ends in Order3 with
\* scalars 0, 1, .., 44.
C27_ExtendScalar ==
    (sh_call.op \in {"extend_scalar", "extend_loop"} /\ sh_call.n < scalar_count(3)) =>
        LET old == scalars(sh_prev)
            new == scalars(sh_value)
            i == sh_call.n
        IN  /\ sh_res = "ok"
            /\ sh_value.order =
                   SmallestOrder(Max(Len(sh_prev.values), (i \div 3) + 1))
            /\ Len(sh_value.values) = vector_count(sh_value.order)
            /\ \A j \in 1..Len(new) :
                   new[j] = IF j = i + 1 THEN GivenScalar
                            ELSE IF j <= Len(old) THEN old[j]
                            ELSE Rat(0, 1)
            /\ (sh_call.op = "extend_loop" /\ i = 44) =>
                   /\ sh_value.order = 3
                   /\ new = [j \in 1..45 |-> Rat(j - 1, 1)]

\* The loop of test_extend has made its 45 calls.
C27_Witness ==
    /\ sh_call.op = "extend_loop" /\ sh_call.n = 44 /\ sh_res = "ok"
    /\ sh_prev.order = 3
    /\ scalars(sh_value)[45] = Rat(44, 1)

(***************************************************************************)
(* Claims on the decoder's totality                                        *)
(***************************************************************************)
\* The 24-bit two's complement value stored for component k of point i.
StoredFixed(i, k) ==
    LET at == HEADER_SIZE + 9 * (i - 1) + 3 * (k - 1)
        raw == input.val[at + 1] + input.val[at + 2] * 256 + input.val[at + 3] * 65536
    IN  IF raw >= 8388608 THEN raw - 16777216 ELSE raw

\* C28: read never crashes: it returns an error or a list of exactly
\* num_points points, and a fractional_bits byte above 24 in a valid header
\* causes no panic and no position of the sign opposite to its stored
\* fixed-point value.
C28_DecoderNeverCrashes ==
    (input # None /\ rcall.op = "read") =>
        /\ rres \in {"ok", "err"}
        /\ rres = "ok" =>
              /\ rgaussians.tag = "some"
              /\ Len(rgaussians.val) = header.val.num_points
              /\ \A i \in 1..Len(rgaussians.val) : \A k \in 1..3 :
                    Sign(rgaussians.val[i].position[k].m) = Sign(StoredFixed(i, k))

(***************************************************************************)
(* Claims on the encoder's errors                                          *)
(***************************************************************************)
\* Two points of the list have different SH orders.
MixedOrders ==
    \E i, j \in 1..Len(gaussians) :
        gaussians[i].spherical_harmonics.order # gaussians[j].spherical_harmonics.order

\* C29: write returns an error only when two points of the list have
\* different SH orders; every list of one order is encoded, and the empty
\* list gives the sixteen header bytes with a point count of 0.
C29_OnlyMixedOrdersFail ==
    wres # "idle" =>
        /\ wres = "err" => MixedOrders
        /\ ~MixedOrders => wres = "ok"
        /\ gaussians = <<>> =>
              /\ Len(stream) = HEADER_SIZE
              /\ u32_from(stream, 9) = 0

(***************************************************************************)
(* Claims on the Hilbert index                                             *)
(***************************************************************************)
\* C30: for every bits >= 1, hilbert_index_3d maps distinct cells of
\* [0, 2^bits)^3 to distinct indices in [0, 2^(3 * bits)).
C30_IndexInjective ==
    h_index # None =>
        LET c == h_cells.val
            r == h_index.val
        IN  /\ r.a \in 0..(2 ^ (3 * c.bits) - 1)
            /\ r.b \in 0..(2 ^ (3 * c.bits) - 1)
            /\ c.a # c.b => r.a # r.b

====
